---- MODULE Spec2Model ----
(***************************************************************************)
(* Model of the pagination engine of i_vis.core.blueprint: get_next_id,    *)
(* DictPager, QueryPager, PaginatedResult and the request wrapper of       *)
(* keyset_paginate.                                                        *)
(*                                                                         *)
(* Python values are encoded as follows.  An Optional value is a sequence  *)
(* of length at most one (None is the empty sequence).  A list is a        *)
(* sequence.  An insertion-ordered dict is a sequence of <<key, value>>    *)
(* pairs with distinct keys.  A string-keyed links mapping is a function.  *)
(* A table is a set of rows with distinct primary keys.                    *)
(***************************************************************************)
EXTENDS Integers, Sequences, FiniteSets, TLC

VARIABLES rows, mapping, links, pager, calls, last, quiet, quietAtFetch, fn,
          registry, config, current_user, session, walk

\* the ConfigMeta object, the application's config, the logged-in user, the
\* database session and a client's traversal of the pages
app == <<registry, config, current_user, session, walk>>

vars == <<rows, mapping, links, pager, calls, last, quiet, quietAtFetch, fn, app>>

(***************************************************************************)
(* Bounds of the model.                                                    *)
(***************************************************************************)
MaxKey == 1
MaxSize == 2
MaxLen == 2
MaxArg == 4
MaxListLen == 10

(***************************************************************************)
(* Program constants.                                                      *)
(***************************************************************************)
CURRENT_ID == 1
SIZE == 50
MAX_SIZE == 100

None == <<>>
Some(x) == <<x>>

Min(a, b) == IF a < b THEN a ELSE b
Max(a, b) == IF a > b THEN a ELSE b

Threads == {"t1", "t2"}
\* integer keys: one key below zero, zero, and the keys up to MaxKey
Keys == (0 - 1)..MaxKey
\* cursors: every key and one value past the largest
CurrentIds == (0 - 1)..(MaxKey + 1)
Sizes == 1..MaxSize

(***************************************************************************)
(* Python semantics used by the pagers.                                    *)
(***************************************************************************)
\* seq[start:stop] with Python's clamping of negative and oversized indices
PySlice(seq, start, stop) ==
    LET n == Len(seq)
        norm(i) == IF i < 0 THEN Max(i + n, 0) ELSE Min(i, n)
        lo == norm(start)
        hi == norm(stop)
    IN  IF lo < hi THEN SubSeq(seq, lo + 1, hi) ELSE <<>>

\* truth value of an Optional[int]: None and 0 are false
Truthy(o) == o # None /\ o[1] # 0

dict_keys(m) == [i \in 1..Len(m) |-> m[i][1]]
dict_values(m) == [i \in 1..Len(m) |-> m[i][2]]

\* dict(zip(keys, values)) for distinct keys: pairs up to the shorter length
dict_zip(ks, vs) == [i \in 1..Min(Len(ks), Len(vs)) |-> <<ks[i], vs[i]>>]

\* links[name] = value on a dict
SetItem(f, name, value) ==
    [k \in DOMAIN f \cup {name} |-> IF k = name THEN value ELSE f[k]]

(***************************************************************************)
(* blueprint.py                                                            *)
(***************************************************************************)
PaginationParameters(current_id, size, max_size) ==
    [current_id |-> current_id, size |-> size, max_size |-> max_size]

PagerInfo(pagination_params, total, next_id) ==
    [pagination_params |-> pagination_params, total |-> total,
     next_id |-> next_id]

PaginatedResult(results, pager_info, keys, links_) ==
    [results |-> results, pager_info |-> pager_info, keys |-> keys,
     links |-> links_]

\* PaginatedResult.data
data(pr) ==
    IF pr.keys # None /\ pr.keys[1] # <<>>
    THEN dict_zip(pr.keys[1], pr.results)
    ELSE pr.results

\* Pager.__init__ / DictPager.__init__
Pager(current_id, size, max_size) ==
    [_current_id |-> current_id, _size |-> size, _max_size |-> max_size]

\* PaginationArgumentsSchema.make_parameters: missing arguments take the
\* defaults of the pager that created the schema
make_parameters(p, q) ==
    PaginationParameters(
        IF q.current_id = None THEN p._current_id ELSE q.current_id[1],
        IF q.size = None THEN p._size ELSE q.size[1],
        p._max_size)

\* get_next_id with an inclusive bound on the candidate
get_next_id_inclusive(current_id, size, total) ==
    IF current_id < total
    THEN IF current_id + size <= total THEN Some(current_id + size) ELSE None
    ELSE None

\* get_next_id without the check of the candidate against total
get_next_id_unchecked(current_id, size, total) ==
    IF current_id < total THEN Some(current_id + size) ELSE None

get_next_id(current_id, size, total) ==
    IF current_id < total
    THEN IF current_id + size < total THEN Some(current_id + size) ELSE None
    ELSE None

\* the callback of the routing layer that renders the URI of the next page
next_callback(next_id) == <<"items", next_id>>

\* links = dict(obj.links); if pager_info.next_id: links["next"] = ...
next_links(obj_links, next_id) ==
    IF Truthy(next_id)
    THEN SetItem(obj_links, "next", next_callback(next_id[1]))
    ELSE obj_links

\* query.count()
query_count(table) == Cardinality(table)

\* the filter with a strict comparison
query_filter_strict(table, current_id) == {r \in table : r.id > current_id}

\* the filter left out
query_filter_all(table, current_id) == table

\* an offset in place of the key filter: skip the first current_id rows
query_filter_offset(table, current_id) ==
    {r \in table : Cardinality({o \in table : o.id < r.id}) >= current_id}

\* query.filter(column >= current_id)
query_filter(table, current_id) == {r \in table : r.id >= current_id}

\* .order_by(column)
RECURSIVE order_by(_)
order_by(table) ==
    IF table = {} THEN <<>>
    ELSE LET m == CHOOSE r \in table : \A o \in table : r.id <= o.id
         IN  <<m>> \o order_by(table \ {m})

\* .limit(n).all()
query_limit(seq, n) == SubSeq(seq, 1, Min(n, Len(seq)))

\* DictPager.paginated_result as one sequential call
DictPager_paginated_result(obj, parameters) ==
    LET current_id == parameters.current_id
        size == parameters.size
        results == obj.results
        total == Len(results)
        pager_info == PagerInfo(parameters, Some(total),
                                get_next_id(current_id, size, total))
        links_ == next_links(obj.links, pager_info.next_id)
        keys == dict_keys(results)
        values == dict_values(results)
    IN  PaginatedResult(PySlice(values, current_id, current_id + size),
                        pager_info, Some(keys), links_)

\* QueryPager.paginated_result as one sequential call
QueryPager_paginated_result(obj, parameters) ==
    LET current_id == parameters.current_id
        size == parameters.size
        total == query_count(obj.query)
        fetched == query_limit(order_by(query_filter(obj.query, current_id)),
                               size + 1)
        more == fetched # <<>> /\ Len(fetched) > size
        next_id == IF more THEN Some(fetched[size + 1].id) ELSE None
        results == IF more THEN PySlice(fetched, 0, size) ELSE fetched
        pager_info == PagerInfo(parameters, Some(total), next_id)
        links_ == next_links(obj.links, pager_info.next_id)
    IN  PaginatedResult(results, pager_info, None, links_)

\* ListPager.paginated_result: the list-offset pager
ListPager_paginated_result(obj, parameters) ==
    LET current_id == parameters.current_id
        size == parameters.size
        total == Len(obj)
        pager_info == PagerInfo(parameters, Some(total),
                                get_next_id(current_id, size, total))
    IN  PaginatedResult(PySlice(obj, current_id, current_id + size),
                        pager_info, None, None)

(***************************************************************************)
(* State.                                                                  *)
(***************************************************************************)
Row(k) == [id |-> k]
Tables == SUBSET {Row(k) : k \in Keys}

\* the insertion-ordered mappings of at most MaxLen entries
KeyNames == <<"a", "b", "c", "d">>
DictItems == {<<KeyNames[k], 10 * k>> : k \in 1..MaxLen}
Mappings ==
    {m \in UNION {[1..n -> DictItems] : n \in 0..MaxLen} :
        \A i, j \in DOMAIN m : i # j => m[i] # m[j]}

EmptyLinks == [k \in {} |-> <<>>]
SelfLinks == [k \in {"self"} |-> <<"items">>]
CallerLinks == {EmptyLinks, SelfLinks}

Pagers == [DictPager |-> Pager(0, SIZE, MAX_SIZE),
           QueryPager |-> Pager(CURRENT_ID, SIZE, MAX_SIZE)]

\* ListPager(): the list-offset pager starts at offset 0 by default
ListPagerDefaults == Pager(0, SIZE, MAX_SIZE)

\* the query string of a request: each argument may be missing
QueryArgs ==
    [current_id : {None} \cup {Some(c) : c \in CurrentIds},
     size : {None} \cup {Some(s) : s \in Sizes}]

IdleCall ==
    [pc |-> "idle", kind |-> "none", params |-> None, pager_info |-> None,
     dirty |-> FALSE, result |-> None]

IdleFn == [pc |-> "idle", name |-> "none", args |-> None, ret |-> None]

\* no other part of the application is in use
AppIdle ==
    /\ registry = [_name2var |-> <<>>, _pname2vars |-> <<>>]
    /\ config = <<>>
    /\ current_user = None
    /\ session = <<>>
    /\ walk = None

\* the two sources are separate objects: one of them is populated
InitPager ==
    /\ \/ rows \in Tables /\ mapping = <<>>
       \/ rows = {} /\ mapping \in Mappings
    /\ links \in CallerLinks
    /\ pager = Pagers
    /\ calls = [t \in Threads |-> IdleCall]
    /\ last = None
    /\ quiet = TRUE
    /\ quietAtFetch = TRUE
    /\ fn = IdleFn
    /\ AppIdle

(***************************************************************************)
(* DictPager.paginated_result, in two steps: the wrapper parses the        *)
(* request and the pager computes pager_info; then it builds the links     *)
(* and the page.                                                           *)
(***************************************************************************)
\* DictPager step one keeping the request's cursor in the pager
DictPager_info_stateful(t, q) ==
    /\ calls[t].pc = "idle"
    /\ LET parameters == make_parameters(pager.DictPager, q)
           current_id == parameters.current_id
           size == parameters.size
           total == Len(mapping)
           pager_info == PagerInfo(parameters,
                                   Some(total),
                                   get_next_id(current_id, size, total))
       IN  /\ calls' = [calls EXCEPT ![t] =
                           [pc |-> "info", kind |-> "DictPager",
                            params |-> Some(parameters),
                            pager_info |-> Some(pager_info),
                            dirty |-> FALSE, result |-> None]]
           /\ pager' = [pager EXCEPT !.DictPager._current_id = current_id]
    /\ UNCHANGED <<rows, mapping, links, last, quiet, quietAtFetch, fn, app>>

DictPager_info(t, q) ==
    /\ calls[t].pc = "idle"
    /\ LET parameters == make_parameters(pager.DictPager, q)
           current_id == parameters.current_id
           size == parameters.size
           total == Len(mapping)
           pager_info == PagerInfo(parameters,
                                   Some(total),
                                   get_next_id(current_id, size, total))
       IN  calls' = [calls EXCEPT ![t] =
                        [pc |-> "info", kind |-> "DictPager",
                         params |-> Some(parameters),
                         pager_info |-> Some(pager_info),
                         dirty |-> FALSE, result |-> None]]
    /\ UNCHANGED <<rows, mapping, links, pager, last, quiet, quietAtFetch, fn, app>>

\* DictPager step two slicing values[current_id : size]
DictPager_page_stop(t) ==
    /\ calls[t].pc = "info"
    /\ LET parameters == calls[t].params[1]
           current_id == parameters.current_id
           size == parameters.size
           pager_info == calls[t].pager_info[1]
           links_ == next_links(links, pager_info.next_id)
           keys == dict_keys(mapping)
           values == dict_values(mapping)
           result == PaginatedResult(
                         PySlice(values, current_id, size),
                         pager_info, Some(keys), links_)
       IN  calls' = [calls EXCEPT ![t].pc = "done",
                                  ![t].result = Some(result)]
    /\ UNCHANGED <<rows, mapping, links, pager, last, quiet, quietAtFetch, fn, app>>

DictPager_page(t) ==
    /\ calls[t].pc = "info"
    /\ LET parameters == calls[t].params[1]
           current_id == parameters.current_id
           size == parameters.size
           pager_info == calls[t].pager_info[1]
           links_ == next_links(links, pager_info.next_id)
           keys == dict_keys(mapping)
           values == dict_values(mapping)
           result == PaginatedResult(
                         PySlice(values, current_id, current_id + size),
                         pager_info, Some(keys), links_)
       IN  calls' = [calls EXCEPT ![t].pc = "done",
                                  ![t].result = Some(result)]
    /\ UNCHANGED <<rows, mapping, links, pager, last, quiet, quietAtFetch, fn, app>>

(***************************************************************************)
(* QueryPager.paginated_result, in two steps: the count query, then the    *)
(* filtered, ordered, limited fetch and the construction of the result.    *)
(***************************************************************************)
\* the count taken over the filtered query
QueryPager_count_filtered(t, q) ==
    /\ calls[t].pc = "idle"
    /\ LET parameters == make_parameters(pager.QueryPager, q)
           total == query_count(query_filter(rows, parameters.current_id))
       IN  calls' = [calls EXCEPT ![t] =
                        [pc |-> "counted", kind |-> "QueryPager",
                         params |-> Some(parameters),
                         pager_info |-> Some(PagerInfo(parameters, Some(total), None)),
                         dirty |-> FALSE, result |-> None]]
    /\ UNCHANGED <<rows, mapping, links, pager, last, quiet, quietAtFetch, fn, app>>

QueryPager_count(t, q) ==
    /\ calls[t].pc = "idle"
    /\ LET parameters == make_parameters(pager.QueryPager, q)
           total == query_count(rows)
       IN  calls' = [calls EXCEPT ![t] =
                        [pc |-> "counted", kind |-> "QueryPager",
                         params |-> Some(parameters),
                         pager_info |-> Some(PagerInfo(parameters, Some(total), None)),
                         dirty |-> FALSE, result |-> None]]
    /\ UNCHANGED <<rows, mapping, links, pager, last, quiet, quietAtFetch, fn, app>>

QueryPager_fetch(t) ==
    /\ calls[t].pc = "counted"
    /\ LET parameters == calls[t].params[1]
           current_id == parameters.current_id
           size == parameters.size
           total == calls[t].pager_info[1].total
           fetched == query_limit(order_by(query_filter(rows, current_id)),
                                  size + 1)
           more == fetched # <<>> /\ Len(fetched) > size
           next_id == IF more THEN Some(fetched[size + 1].id) ELSE None
           results == IF more THEN PySlice(fetched, 0, size) ELSE fetched
           pager_info == PagerInfo(parameters, total, next_id)
           links_ == next_links(links, pager_info.next_id)
           result == PaginatedResult(results, pager_info, None, links_)
       IN  calls' = [calls EXCEPT ![t].pc = "done",
                                  ![t].pager_info = Some(pager_info),
                                  ![t].result = Some(result)]
    /\ quietAtFetch' = quiet
    /\ quiet' = TRUE
    /\ UNCHANGED <<rows, mapping, links, pager, last, fn, app>>

\* the wrapper of keyset_paginate returns the result to the caller
Return(t) ==
    /\ calls[t].pc = "done"
    /\ calls' = [calls EXCEPT ![t] = IdleCall]
    /\ UNCHANGED <<rows, mapping, links, pager, last, quiet, quietAtFetch, fn, app>>

(***************************************************************************)
(* A concurrent writer on the table behind the query, and a client that    *)
(* keeps the page it received before asking again.                         *)
(***************************************************************************)
\* the cursor of the most recent fetch, if there was one
FetchedCursor ==
    IF \E t \in Threads : calls[t].pc = "done" /\ calls[t].kind = "QueryPager"
    THEN LET t == CHOOSE u \in Threads :
                      calls[u].pc = "done" /\ calls[u].kind = "QueryPager"
         IN  Some(calls[t].params[1].current_id)
    ELSE IF last # None THEN Some(last[1].params.current_id) ELSE None

Written(k) ==
    /\ calls' = [t \in Threads |->
                    IF calls[t].pc = "counted"
                    THEN [calls[t] EXCEPT !.dirty = TRUE]
                    ELSE calls[t]]
    /\ quiet' = (quiet /\ (FetchedCursor = None \/ k < FetchedCursor[1]))
    /\ UNCHANGED <<mapping, links, pager, last, quietAtFetch, fn, app>>

Insert(k) ==
    /\ Row(k) \notin rows
    /\ rows' = rows \cup {Row(k)}
    /\ Written(k)

Delete(k) ==
    /\ Row(k) \in rows
    /\ rows' = rows \ {Row(k)}
    /\ Written(k)

Remember(t) ==
    /\ calls[t].pc = "done"
    /\ calls[t].kind = "QueryPager"
    /\ last' = Some([params |-> calls[t].params[1],
                      result |-> calls[t].result[1]])
    /\ calls' = [calls EXCEPT ![t] = IdleCall]
    /\ UNCHANGED <<rows, mapping, links, pager, quiet, quietAtFetch, fn, app>>

Next ==
    \/ \E t \in Threads, q \in QueryArgs : DictPager_info(t, q)
    \/ \E t \in Threads : DictPager_page(t)
    \/ \E t \in Threads, q \in QueryArgs : QueryPager_count(t, q)
    \/ \E t \in Threads : QueryPager_fetch(t)
    \/ \E t \in Threads : Return(t)

Spec == InitPager /\ [][Next]_vars

\* a client that asks for the page it asked for before
Poll(t, q) ==
    /\ last # None => make_parameters(pager.QueryPager, q) = last[1].params
    /\ QueryPager_count(t, q)

\* one request at a time against a table that a writer changes
NextQuery ==
    \/ \E q \in QueryArgs : Poll("t1", q)
    \/ QueryPager_fetch("t1")
    \/ Remember("t1")
    \/ \E k \in Keys : Insert(k)
    \/ \E k \in Keys : Delete(k)

InitQuery ==
    /\ InitPager
    /\ mapping = <<>>
    /\ links = SelfLinks

SpecQuery == InitQuery /\ [][NextQuery]_vars

(***************************************************************************)
(* Calls of the pure functions on inputs drawn from bounded sets.          *)
(***************************************************************************)
NextIdArgs == [current_id : 0..MaxArg, size : 1..MaxArg, total : 0..(2 * MaxArg)]

Lists == {[i \in 1..n |-> i] : n \in 0..MaxListLen}
ListArgs ==
    [obj : Lists,
     q : [current_id : {None} \cup {Some(c) : c \in 0..(MaxListLen + 1)},
          size : {None} \cup {Some(s) : s \in Sizes}]]

Ready(name, args) == [pc |-> "ready", name |-> name, args |-> Some(args), ret |-> None]

PagerIdle ==
    /\ rows = {}
    /\ mapping = <<>>
    /\ links = EmptyLinks
    /\ pager = Pagers
    /\ calls = [t \in Threads |-> IdleCall]
    /\ last = None
    /\ quiet = TRUE
    /\ quietAtFetch = TRUE

InitIdle == PagerIdle /\ AppIdle

Again(name, args) ==
    /\ fn.pc = "returned"
    /\ fn.name = name
    /\ fn' = Ready(name, args)
    /\ UNCHANGED <<rows, mapping, links, pager, calls, last, quiet, quietAtFetch, app>>

Call_get_next_id ==
    /\ fn.pc = "ready"
    /\ fn.name = "get_next_id"
    /\ LET a == fn.args[1]
       IN  fn' = [fn EXCEPT !.pc = "returned",
                            !.ret = Some(get_next_id(a.current_id, a.size, a.total))]
    /\ UNCHANGED <<rows, mapping, links, pager, calls, last, quiet, quietAtFetch, app>>

InitNextId == InitIdle /\ fn \in {Ready("get_next_id", a) : a \in NextIdArgs}

NextNextId ==
    \/ Call_get_next_id
    \/ \E a \in NextIdArgs : Again("get_next_id", a)

SpecNextId == InitNextId /\ [][NextNextId]_vars

Call_ListPager ==
    /\ fn.pc = "ready"
    /\ fn.name = "ListPager"
    /\ LET a == fn.args[1]
           parameters == make_parameters(ListPagerDefaults, a.q)
       IN  fn' = [fn EXCEPT !.pc = "returned",
                            !.ret = Some(ListPager_paginated_result(a.obj, parameters))]
    /\ UNCHANGED <<rows, mapping, links, pager, calls, last, quiet, quietAtFetch, app>>

InitList == InitIdle /\ fn \in {Ready("ListPager", a) : a \in ListArgs}

NextList ==
    \/ Call_ListPager
    \/ \E a \in ListArgs : Again("ListPager", a)

SpecList == InitList /\ [][NextList]_vars

(***************************************************************************)
(* PagerInfo.pages, read while the parameters object it refers to is       *)
(* assigned a new size.                                                    *)
(***************************************************************************)
MaxTotal == 10
MaxPageSize == 5

\* math.ceil(a / b) for b > 0
ceil_div(a, b) == 0 - ((0 - a) \div b)

\* the quotient rounded down
pages_floor(pager_info) ==
    IF pager_info.total = None
    THEN None
    ELSE Some(pager_info.total[1] \div pager_info.pagination_params.size)

\* PagerInfo.pages
pages(pager_info) ==
    IF pager_info.total = None
    THEN None
    ELSE Some(ceil_div(pager_info.total[1], pager_info.pagination_params.size))

PagesArgs ==
    {PagerInfo(PaginationParameters(0, s, MAX_SIZE), t, None) :
        s \in 1..MaxPageSize, t \in {None} \cup {Some(n) : n \in 0..MaxTotal}}

\* parameters.size = s on the object the pager info refers to
SetSize(s) ==
    /\ fn.name = "pages"
    /\ fn.pc = "ready"
    /\ fn.args[1].pagination_params.size # s
    /\ fn' = [fn EXCEPT !.args = Some([fn.args[1] EXCEPT !.pagination_params.size = s])]
    /\ UNCHANGED <<rows, mapping, links, pager, calls, last, quiet, quietAtFetch, app>>

Call_pages ==
    /\ fn.pc = "ready"
    /\ fn.name = "pages"
    /\ fn' = [fn EXCEPT !.pc = "returned", !.ret = Some(pages(fn.args[1]))]
    /\ UNCHANGED <<rows, mapping, links, pager, calls, last, quiet, quietAtFetch, app>>

InitPages == InitIdle /\ fn \in {Ready("pages", a) : a \in PagesArgs}

NextPages ==
    \/ Call_pages
    \/ \E s \in 1..MaxPageSize : SetSize(s)
    \/ \E a \in PagesArgs : Again("pages", a)

SpecPages == InitPages /\ [][NextPages]_vars

(***************************************************************************)
(* version.py.  A str is a sequence of one-character strings.  A Version   *)
(* is a record tagged with its class.  The outcome of a comparison is one  *)
(* of "True", "False", "NotImplemented" or the name of the exception it    *)
(* raises.                                                                 *)
(***************************************************************************)
MaxNum == 2
MaxTripleNum == 1
MaxStrLen == 4

Digits == <<"0", "1", "2", "3", "4", "5", "6", "7", "8", "9">>
IsDigit(c) == \E i \in DOMAIN Digits : Digits[i] = c
DigitValue(c) == (CHOOSE i \in DOMAIN Digits : Digits[i] = c) - 1

\* int(s) of a run of digits
RECURSIVE int(_)
int(s) ==
    IF s = <<>> THEN 0
    ELSE int(SubSeq(s, 1, Len(s) - 1)) * 10 + DigitValue(s[Len(s)])

\* str(n) of an int n >= 0
RECURSIVE str(_)
str(n) ==
    IF n < 10 THEN <<Digits[n + 1]>>
    ELSE str(n \div 10) \o <<Digits[(n % 10) + 1]>>

\* sep.join(parts)
RECURSIVE join(_, _)
join(sep, parts) ==
    IF parts = <<>> THEN <<>>
    ELSE IF Len(parts) = 1 THEN parts[1]
    ELSE parts[1] \o sep \o join(sep, Tail(parts))

\* bool as the outcome of a comparison
Bool(b) == IF b THEN "True" ELSE "False"

\* Version(), Unknown()
BaseVersion == [cls |-> "Version"]
Unknown == [cls |-> "Unknown"]

\* Date.__init__ with the properties year, month, day
Date(year, month, day) ==
    [cls |-> "Date", year |-> year, month |-> month, day |-> day]

\* Default.__init__
Default(major, minor, patch, prefix, suffix) ==
    [cls |-> "Default", major |-> major, minor |-> minor, patch |-> patch,
     prefix |-> prefix, suffix |-> suffix]

\* isinstance(v, Version), isinstance(v, cls)
VersionClasses == {"Version", "Unknown", "Date", "Default"}
isinstance(v, cls) ==
    IF cls = "Version" THEN v.cls \in VersionClasses ELSE v.cls = cls

\* getattr(v, attr, None); minor and patch are Optional already
getattr(v, attr) ==
    IF attr \notin DOMAIN v THEN None
    ELSE IF attr \in {"minor", "patch"} THEN v[attr]
    ELSE Some(v[attr])

\* n zero-padded to the given width
RECURSIVE zfill(_, _)
zfill(s, width) == IF Len(s) >= width THEN s ELSE zfill(<<"0">> \o s, width)

\* Date.__str__: strftime("%Y_%m_%d")
Date_str(v) ==
    zfill(str(v.year), 4) \o <<"_">> \o zfill(str(v.month), 2) \o <<"_">>
        \o zfill(str(v.day), 2)

\* Default.__str__
Default_str(v) ==
    LET fields == <<Some(v.major), v.minor, v.patch>>
        s == SelectSeq(fields, LAMBDA f : f # None)
    IN  v.prefix \o join(<<".">>, [i \in 1..Len(s) |-> str(s[i][1])]) \o v.suffix


\* s[i..j] is a non-empty run of digits: \d+
DigitRun(s, i, j) == i <= j /\ j <= Len(s) /\ \A k \in i..j : IsDigit(s[k])

\* the ways DEFAULT_PATTERN matches at the start of s, by the lengths of
\* the groups prefix, major, minor and patch (0: the group takes no part)
Matches(s) ==
    LET n == Len(s)
    IN  {m \in [prefix : 0..n, major : 1..n, minor : 0..n, patch : 0..n] :
            LET a == m.prefix + m.major
                b == IF m.minor = 0 THEN a ELSE a + 1 + m.minor
                c == IF m.patch = 0 THEN b ELSE b + 1 + m.patch
            IN  /\ c <= n
                /\ m.prefix > 0 =>
                       ~IsDigit(s[m.prefix]) /\ s[m.prefix] # "+"
                /\ DigitRun(s, m.prefix + 1, a)
                /\ m.minor > 0 => s[a + 1] = "." /\ DigitRun(s, a + 2, b)
                /\ m.patch > 0 => s[b + 1] = "." /\ DigitRun(s, b + 2, c)}

\* the greedy quantifiers try the longer alternative first, group by group
Preferred(m, o) ==
    \/ m.prefix > o.prefix
    \/ m.prefix = o.prefix /\ m.major > o.major
    \/ m.prefix = o.prefix /\ m.major = o.major /\ m.minor > o.minor
    \/ m.prefix = o.prefix /\ m.major = o.major /\ m.minor = o.minor
           /\ m.patch > o.patch

\* re.match(DEFAULT_PATTERN, s).groupdict(), or None
re_match(s) ==
    LET found == Matches(s)
    IN  IF found = {} THEN None
        ELSE LET m == CHOOSE x \in found :
                          \A o \in found : o = x \/ Preferred(x, o)
                 a == m.prefix + m.major
                 b == IF m.minor = 0 THEN a ELSE a + 1 + m.minor
                 c == IF m.patch = 0 THEN b ELSE b + 1 + m.patch
             IN  Some([prefix |-> IF m.prefix = 0 THEN None
                                  ELSE Some(SubSeq(s, 1, m.prefix)),
                       major |-> SubSeq(s, m.prefix + 1, a),
                       minor |-> IF m.minor = 0 THEN None
                                 ELSE Some(SubSeq(s, a + 2, b)),
                       patch |-> IF m.patch = 0 THEN None
                                 ELSE Some(SubSeq(s, b + 2, c)),
                       suffix |-> SubSeq(s, c + 1, Len(s))])

\* the outcome of a call: a value, or the exception it raised
Returns(value) == [raised |-> None, value |-> Some(value)]
Raises(exc) == [raised |-> Some(exc), value |-> None]

\* Default.from_str
from_str(s) ==
    LET match == re_match(s)
    IN  IF match = None THEN Raises("ValueError")
        ELSE LET g == match[1]
             IN  Returns(Default(
                     int(g.major),
                     IF g.minor = None THEN None ELSE Some(int(g.minor[1])),
                     IF g.patch = None THEN None ELSE Some(int(g.patch[1])),
                     IF g.prefix = None THEN <<>> ELSE g.prefix[1],
                     g.suffix))


\* less_than with an absent value after a present one
RECURSIVE less_than_absent_last(_, _, _)
less_than_absent_last(self, other, attrs) ==
    IF attrs = <<>> THEN FALSE
    ELSE LET attr1 == getattr(self, Head(attrs))
             attr2 == getattr(other, Head(attrs))
         IN  IF attr1 # None
             THEN IF attr2 = None THEN TRUE
                  ELSE IF attr1[1] < attr2[1] THEN TRUE
                  ELSE IF attr1[1] > attr2[1] THEN FALSE
                  ELSE less_than_absent_last(self, other, Tail(attrs))
             ELSE IF attr2 # None THEN FALSE
                  ELSE less_than_absent_last(self, other, Tail(attrs))

\* less_than that goes on to the next attribute past a larger value
RECURSIVE less_than_skip(_, _, _)
less_than_skip(self, other, attrs) ==
    IF attrs = <<>> THEN FALSE
    ELSE LET attr1 == getattr(self, Head(attrs))
             attr2 == getattr(other, Head(attrs))
         IN  IF attr1 # None
             THEN IF attr2 = None THEN FALSE
                  ELSE IF attr1[1] < attr2[1] THEN TRUE
                  ELSE less_than_skip(self, other, Tail(attrs))
             ELSE IF attr2 # None THEN TRUE
                  ELSE less_than_skip(self, other, Tail(attrs))

\* less_than that is True when no attribute differs
RECURSIVE less_than_or_equal(_, _, _)
less_than_or_equal(self, other, attrs) ==
    IF attrs = <<>> THEN TRUE
    ELSE LET attr1 == getattr(self, Head(attrs))
             attr2 == getattr(other, Head(attrs))
         IN  IF attr1 # None
             THEN IF attr2 = None THEN FALSE
                  ELSE IF attr1[1] < attr2[1] THEN TRUE
                  ELSE IF attr1[1] > attr2[1] THEN FALSE
                  ELSE less_than_or_equal(self, other, Tail(attrs))
             ELSE IF attr2 # None THEN TRUE
                  ELSE less_than_or_equal(self, other, Tail(attrs))

\* less_than(self, other, attrs)
RECURSIVE less_than(_, _, _)
less_than(self, other, attrs) ==
    IF attrs = <<>> THEN FALSE
    ELSE LET attr1 == getattr(self, Head(attrs))
             attr2 == getattr(other, Head(attrs))
         IN  IF attr1 # None
             THEN IF attr2 = None THEN FALSE
                  ELSE IF attr1[1] < attr2[1] THEN TRUE
                  ELSE IF attr1[1] > attr2[1] THEN FALSE
                  ELSE less_than(self, other, Tail(attrs))
             ELSE IF attr2 # None THEN TRUE
                  ELSE less_than(self, other, Tail(attrs))

\* Version.__eq__, Version.__lt__
Version_eq(self, other) == "NotImplementedError"
Version_lt(self, other) == "NotImplementedError"

\* Unknown.__eq__ that takes two Unknown for equal
Unknown_eq_same(self, other) ==
    IF isinstance(other, "Unknown") THEN "True"
    ELSE IF isinstance(other, "Version") THEN "False"
    ELSE "NotImplemented"

\* Unknown.__eq__
Unknown_eq(self, other) ==
    IF isinstance(other, "Version") THEN "False" ELSE "NotImplemented"

\* Unknown.__lt__, Unknown.__hash__, Unknown.is_known
Unknown_lt(self, other) ==
    IF isinstance(other, "Unknown") THEN "False" ELSE "NotImplemented"
Unknown_hash(self) == 0
is_known(self) == ~isinstance(self, "Unknown")

\* Date.__eq__, Date.__lt__
Date_eq(self, other) ==
    IF isinstance(other, "Date") THEN Bool(Date_str(self) = Date_str(other))
    ELSE "NotImplemented"
Date_lt(self, other) ==
    IF isinstance(other, "Date")
    THEN Bool(less_than(self, other, <<"year", "month", "day">>))
    ELSE "NotImplemented"

\* Default.__eq__ by the fields instead of the rendering
Default_eq_fields(self, other) ==
    IF isinstance(other, "Default") THEN Bool(self = other)
    ELSE "NotImplemented"

\* Default.__eq__
Default_eq(self, other) ==
    IF isinstance(other, "Default")
    THEN Bool(Default_str(self) = Default_str(other))
    ELSE "NotImplemented"
\* Default.__lt__
Default_lt(self, other) ==
    IF isinstance(other, "Default")
    THEN Bool(less_than(self, other, <<"major", "minor", "patch">>))
    ELSE "NotImplemented"

\* the comparison methods the classes of version.py define; the others
\* (__ne__, __le__, __gt__, __ge__) are the ones inherited from object
method_eq(self, other) ==
    CASE self.cls = "Unknown" -> Unknown_eq(self, other)
      [] self.cls = "Date" -> Date_eq(self, other)
      [] self.cls = "Default" -> Default_eq(self, other)
      [] OTHER -> Version_eq(self, other)
method_lt(self, other) ==
    CASE self.cls = "Unknown" -> Unknown_lt(self, other)
      [] self.cls = "Date" -> Date_lt(self, other)
      [] self.cls = "Default" -> Default_lt(self, other)
      [] OTHER -> Version_lt(self, other)
method_gt(self, other) == "NotImplemented"
method_le(self, other) == "NotImplemented"
method_ge(self, other) == "NotImplemented"

\* type(b) is a proper subclass of type(a): Unknown, Date and Default
\* derive from Version, and each overrides __eq__ and __lt__
ProperSubclass(b, a) == a.cls = "Version" /\ b.cls # "Version"

\* a == b: the reflected __eq__ goes first for a subclass that overrides
\* it; two NotImplemented leave the identity of the two objects, which are
\* of different classes whenever both methods decline
op_eq(a, b) ==
    LET r1 == IF ProperSubclass(b, a) THEN method_eq(b, a) ELSE method_eq(a, b)
        r2 == IF ProperSubclass(b, a) THEN method_eq(a, b) ELSE method_eq(b, a)
    IN  IF r1 # "NotImplemented" THEN r1
        ELSE IF r2 # "NotImplemented" THEN r2
        ELSE "False"

\* a < b: __lt__, then the reflected __gt__, then TypeError
op_lt(a, b) ==
    LET r1 == method_lt(a, b)
        r2 == method_gt(b, a)
    IN  IF r1 # "NotImplemented" THEN r1
        ELSE IF r2 # "NotImplemented" THEN r2
        ELSE "TypeError"

\* a > b: __gt__ and the reflected __lt__, which goes first for a subclass
\* that overrides it
op_gt(a, b) ==
    LET r1 == IF ProperSubclass(b, a) THEN method_lt(b, a) ELSE method_gt(a, b)
        r2 == IF ProperSubclass(b, a) THEN method_gt(a, b) ELSE method_lt(b, a)
    IN  IF r1 # "NotImplemented" THEN r1
        ELSE IF r2 # "NotImplemented" THEN r2
        ELSE "TypeError"

\* a <= b and a >= b: no class defines __le__ or __ge__
op_le(a, b) ==
    LET r1 == method_le(a, b)
        r2 == method_ge(b, a)
    IN  IF r1 # "NotImplemented" THEN r1
        ELSE IF r2 # "NotImplemented" THEN r2
        ELSE "TypeError"
op_ge(a, b) ==
    LET r1 == method_ge(a, b)
        r2 == method_le(b, a)
    IN  IF r1 # "NotImplemented" THEN r1
        ELSE IF r2 # "NotImplemented" THEN r2
        ELSE "TypeError"


(***************************************************************************)
(* Calls of Default.from_str, and of a caller that renders a Default and   *)
(* parses the rendering back.                                              *)
(***************************************************************************)
Alphabet == {"1", "2", ".", "+", "v"}
pre == <<"p", "r", "e", "-">>
post == <<"-", "p", "o", "s", "t">>
ExampleStrings ==
    {<<"1", ".", "1", ".", "2">>, <<"1", ".", "1">>, <<"1">>,
     pre \o <<"1", ".", "1", ".", "2">> \o post}
Strings ==
    UNION {[1..n -> Alphabet] : n \in 1..MaxStrLen} \cup ExampleStrings

OptNums(max) == {None} \cup {Some(n) : n \in 0..max}
Prefixes == {<<>>, <<"v">>, <<"+">>, pre}
Suffixes == {<<>>, post}
Defaults ==
    {Default(major, minor, patch, prefix, suffix) :
        major \in 0..MaxNum, minor \in OptNums(MaxNum),
        patch \in OptNums(MaxNum), prefix \in Prefixes, suffix \in Suffixes}

Call_from_str ==
    /\ fn.pc = "ready"
    /\ fn.name = "from_str"
    /\ fn' = [fn EXCEPT !.pc = "returned", !.ret = Some(from_str(fn.args[1]))]
    /\ UNCHANGED <<rows, mapping, links, pager, calls, last, quiet, quietAtFetch, app>>

\* Default.from_str(str(v)) == v
round_trip(v) ==
    LET parsed == from_str(Default_str(v))
    IN  IF parsed.raised # None THEN parsed.raised[1]
        ELSE op_eq(parsed.value[1], v)

Call_round_trip ==
    /\ fn.pc = "ready"
    /\ fn.name = "round_trip"
    /\ fn' = [fn EXCEPT !.pc = "returned", !.ret = Some(round_trip(fn.args[1]))]
    /\ UNCHANGED <<rows, mapping, links, pager, calls, last, quiet, quietAtFetch, app>>

\* the positions of the separator of DATE_FORMAT in s
Underscores(s) == {i \in DOMAIN s : s[i] = "_"}

\* calendar.monthrange(year, month)[1]
IsLeap(year) == year % 4 = 0 /\ (year % 100 # 0 \/ year % 400 = 0)
DaysInMonth(year, month) ==
    IF month = 2 THEN (IF IsLeap(year) THEN 29 ELSE 28)
    ELSE IF month \in {4, 6, 9, 11} THEN 30
    ELSE 31

\* the directives %Y, %m and %d of strptime: four digits; 1[0-2]|0[1-9]|[1-9];
\* 3[01]|[12]\d|0[1-9]|[1-9]
DirectiveY(s) == Len(s) = 4 /\ DigitRun(s, 1, 4)
DirectiveM(s) == Len(s) \in 1..2 /\ DigitRun(s, 1, Len(s)) /\ int(s) \in 1..12
DirectiveD(s) == Len(s) \in 1..2 /\ DigitRun(s, 1, Len(s)) /\ int(s) \in 1..31

\* Date.from_str: Date(datetime.datetime.strptime(s, DATE_FORMAT)); the
\* string has to match the format as a whole and name a day of the calendar
Date_from_str(s) ==
    LET u == Underscores(s)
    IN  IF Cardinality(u) # 2 THEN Raises("ValueError")
        ELSE LET i == CHOOSE x \in u : \A y \in u : x <= y
                 j == CHOOSE x \in u : \A y \in u : x >= y
                 Y == SubSeq(s, 1, i - 1)
                 m == SubSeq(s, i + 1, j - 1)
                 d == SubSeq(s, j + 1, Len(s))
             IN  IF ~(DirectiveY(Y) /\ DirectiveM(m) /\ DirectiveD(d))
                 THEN Raises("ValueError")
                 ELSE IF int(Y) < 1 \/ int(d) > DaysInMonth(int(Y), int(m))
                 THEN Raises("ValueError")
                 ELSE Returns(Date(int(Y), int(m), int(d)))

DateStrings ==
    {Y \o a \o m \o b \o d :
        Y \in {<<"2", "0", "2", "0">>, <<"2", "0", "2">>, <<"0", "0", "0", "0">>,
               <<"2", "0", "2", "1">>, <<"v", "0", "2", "0">>},
        a \in {<<"_">>, <<"-">>, <<>>}, b \in {<<"_">>, <<"-">>},
        m \in {<<"0", "2">>, <<"5">>, <<"1", "2">>, <<"1", "3">>, <<>>},
        d \in {<<"0", "1">>, <<"1">>, <<"3", "0">>, <<"3", "2">>,
               <<"0", "1", "_">>}}

Call_Date_from_str ==
    /\ fn.pc = "ready"
    /\ fn.name = "Date_from_str"
    /\ fn' = [fn EXCEPT !.pc = "returned",
                        !.ret = Some(Date_from_str(fn.args[1]))]
    /\ UNCHANGED <<rows, mapping, links, pager, calls, last, quiet, quietAtFetch, app>>

\* the dotted string of a tuple of numbers, as str of a Default without
\* prefix and suffix gives it
dotted(nums) == join(<<".">>, [i \in DOMAIN nums |-> str(nums[i])])

\* x < y of two parsed values, or the exception of the parse that raised
parsed_lt(x, y) ==
    IF x.raised # None THEN x.raised[1]
    ELSE IF y.raised # None THEN y.raised[1]
    ELSE op_lt(x.value[1], y.value[1])

\* Default.from_str(a) < Default.from_str(b): first the operands
Call_parse_both ==
    /\ fn.pc = "ready"
    /\ fn.name = "parsed_lt"
    /\ fn' = [fn EXCEPT !.pc = "parsed",
                        !.ret = Some(<<from_str(fn.args[1][1]),
                                       from_str(fn.args[1][2])>>)]
    /\ UNCHANGED <<rows, mapping, links, pager, calls, last, quiet, quietAtFetch, app>>

\* then the comparison of the two
Call_parsed_lt ==
    /\ fn.pc = "parsed"
    /\ fn.name = "parsed_lt"
    /\ fn' = [fn EXCEPT !.pc = "returned",
                        !.ret = Some(parsed_lt(fn.ret[1][1], fn.ret[1][2]))]
    /\ UNCHANGED <<rows, mapping, links, pager, calls, last, quiet, quietAtFetch, app>>

InitParse ==
    /\ InitIdle
    /\ \/ \E s \in Strings : fn = Ready("from_str", s)
       \/ \E v \in Defaults : fn = Ready("round_trip", v)
       \/ \E s \in DateStrings : fn = Ready("Date_from_str", s)

NextParse == Call_from_str \/ Call_round_trip \/ Call_Date_from_str

SpecParse == InitParse /\ [][NextParse]_vars

\* versions stored as dotted strings of one, two or three numbers, parsed
\* and compared
InitStored ==
    /\ InitIdle
    /\ \/ \E n \in 1..2 : \E a, b \in [1..n -> 0..MaxNum] :
              fn = Ready("parsed_lt", <<dotted(a), dotted(b)>>)
       \/ \E a, b \in [1..3 -> 0..MaxTripleNum] :
              fn = Ready("parsed_lt", <<dotted(a), dotted(b)>>)

NextStored == Call_parse_both \/ Call_parsed_lt

SpecStored == InitStored /\ [][NextStored]_vars


(***************************************************************************)
(* Comparisons of two versions, and of three versions pairwise.            *)
(***************************************************************************)
Dates ==
    {Date(year, month, day) :
        year \in {2020, 2021}, month \in {1, 12}, day \in {1, 28}}
PairDefaults ==
    {Default(major, minor, patch, prefix, suffix) :
        major \in 0..MaxNum, minor \in OptNums(MaxNum),
        patch \in OptNums(MaxNum), prefix \in {<<>>, <<"v">>},
        suffix \in {<<>>, <<".", "1">>}}
TripleDefaults ==
    {Default(major, minor, patch, prefix, <<>>) :
        major \in 0..MaxTripleNum, minor \in OptNums(MaxTripleNum),
        patch \in OptNums(MaxTripleNum), prefix \in {<<>>, <<"v">>}}
Versions == PairDefaults \cup Dates \cup {Unknown, BaseVersion}

\* a == b, b == a, a < b, b < a, a > b, a <= b, a >= b
compare(a, b) ==
    [eq |-> op_eq(a, b), req |-> op_eq(b, a), lt |-> op_lt(a, b),
     rlt |-> op_lt(b, a), gt |-> op_gt(a, b), le |-> op_le(a, b),
     ge |-> op_ge(a, b)]

\* < on each ordered pair of a, b and c
compare3(a, b, c) ==
    [aa |-> op_lt(a, a), ab |-> op_lt(a, b), ba |-> op_lt(b, a),
     bc |-> op_lt(b, c), cb |-> op_lt(c, b), ac |-> op_lt(a, c),
     ca |-> op_lt(c, a)]

Call_compare ==
    /\ fn.pc = "ready"
    /\ fn.name = "compare"
    /\ fn' = [fn EXCEPT !.pc = "returned",
                        !.ret = Some(compare(fn.args[1][1], fn.args[1][2]))]
    /\ UNCHANGED <<rows, mapping, links, pager, calls, last, quiet, quietAtFetch, app>>

Call_compare3 ==
    /\ fn.pc = "ready"
    /\ fn.name = "compare3"
    /\ fn' = [fn EXCEPT !.pc = "returned",
                        !.ret = Some(compare3(fn.args[1][1], fn.args[1][2],
                                              fn.args[1][3]))]
    /\ UNCHANGED <<rows, mapping, links, pager, calls, last, quiet, quietAtFetch, app>>

\* Default.__hash__: the hash of the tuple of those of major, minor and
\* patch that are true, so neither None nor 0.  The hash of a tuple of ints
\* is given as the tuple: equal tuples hash alike, and the tuples of up to
\* three small ints do not collide.
Default_hash(self) ==
    LET fields == SelectSeq(<<Some(self.major), self.minor, self.patch>>, Truthy)
    IN  [i \in DOMAIN fields |-> fields[i][1]]

\* a == b, hash(a), hash(b)
hashes(a, b) == [eq |-> op_eq(a, b), a |-> Default_hash(a), b |-> Default_hash(b)]

Call_hashes ==
    /\ fn.pc = "ready"
    /\ fn.name = "hashes"
    /\ fn' = [fn EXCEPT !.pc = "returned",
                        !.ret = Some(hashes(fn.args[1][1], fn.args[1][2]))]
    /\ UNCHANGED <<rows, mapping, links, pager, calls, last, quiet, quietAtFetch, app>>

InitCompare ==
    /\ InitIdle
    /\ \/ \E a, b \in Versions : fn = Ready("compare", <<a, b>>)
       \/ \E a, b, c \in TripleDefaults : fn = Ready("compare3", <<a, b, c>>)
       \/ \E a, b, c \in Dates : fn = Ready("compare3", <<a, b, c>>)
       \/ \E a, b \in PairDefaults : fn = Ready("hashes", <<a, b>>)

NextCompare == Call_compare \/ Call_compare3 \/ Call_hashes

SpecCompare == InitCompare /\ [][NextCompare]_vars


(***************************************************************************)
(* recent.  A datetime.date is a record of year, month and day.            *)
(***************************************************************************)
MaxDates == 3

date(year, month, day) == [year |-> year, month |-> month, day |-> day]

\* datetime.date.__gt__
date_gt(a, b) ==
    \/ a.year > b.year
    \/ a.year = b.year /\ a.month > b.month
    \/ a.year = b.year /\ a.month = b.month /\ a.day > b.day

\* max(a, b, ...) of two or more arguments: the first of the largest
RECURSIVE max_from(_, _)
max_from(best, rest) ==
    IF rest = <<>> THEN best
    ELSE max_from(IF date_gt(Head(rest), best) THEN Head(rest) ELSE best,
                  Tail(rest))

\* max of the arguments: without arguments a TypeError; a single argument
\* is taken for an iterable of the values, which a datetime.date is not
builtin_max(args) ==
    IF Len(args) = 0 THEN Raises("TypeError")
    ELSE IF Len(args) = 1 THEN Raises("TypeError")
    ELSE Returns(max_from(Head(args), Tail(args)))

\* recent: max of the dates
recent(dates) == builtin_max(dates)

CalendarDates ==
    {date(2001, 1, 1), date(2001, 12, 31), date(2002, 1, 1), date(2002, 1, 2)}
DateLists == UNION {[1..n -> CalendarDates] : n \in 0..MaxDates}

Call_recent ==
    /\ fn.pc = "ready"
    /\ fn.name = "recent"
    /\ fn' = [fn EXCEPT !.pc = "returned", !.ret = Some(recent(fn.args[1]))]
    /\ UNCHANGED <<rows, mapping, links, pager, calls, last, quiet, quietAtFetch, app>>

InitRecent == InitIdle /\ \E dates \in DateLists : fn = Ready("recent", dates)

NextRecent == Call_recent

SpecRecent == InitRecent /\ [][NextRecent]_vars


(***************************************************************************)
(* config.py.  ConfigMeta keeps two insertion-ordered dicts, each a        *)
(* sequence of <<key, value>> pairs: _name2var from a variable name to its *)
(* meta, and _pname2vars from a plugin name to such a dict of its own.     *)
(* current_app.config is a function from the names it holds to their       *)
(* values, None among them.                                                *)
(***************************************************************************)
LowerCase ==
    <<"a", "b", "c", "d", "e", "f", "g", "h", "i", "j", "k", "l", "m",
      "n", "o", "p", "q", "r", "s", "t", "u", "v", "w", "x", "y", "z">>
UpperCase ==
    <<"A", "B", "C", "D", "E", "F", "G", "H", "I", "J", "K", "L", "M",
      "N", "O", "P", "Q", "R", "S", "T", "U", "V", "W", "X", "Y", "Z">>

\* str.upper
upper(s) ==
    [i \in DOMAIN s |->
        IF \E k \in DOMAIN LowerCase : LowerCase[k] = s[i]
        THEN UpperCase[CHOOSE k \in DOMAIN LowerCase : LowerCase[k] = s[i]]
        ELSE s[i]]

\* str.startswith
startswith(s, prefix) ==
    Len(s) >= Len(prefix) /\ SubSeq(s, 1, Len(prefix)) = prefix

\* variable_name(name, pname)
variable_name(name, pname) ==
    IF pname # None /\ pname[1] # <<>>
           /\ ~startswith(pname[1], <<"i", "-", "v", "i", "s", "-">>)
    THEN upper(<<"I", "_", "V", "I", "S", "_">> \o pname[1] \o <<"_">> \o name)
    ELSE upper(<<"I", "_", "V", "I", "S", "_">> \o name)

\* key in d, d[key], d[key] = value and d.setdefault(key, {}) on an
\* insertion-ordered dict: a new key goes last, a known key keeps its place
dict_has(d, key) == \E i \in DOMAIN d : d[i][1] = key
dict_get(d, key) == d[CHOOSE i \in DOMAIN d : d[i][1] = key][2]
dict_set(d, key, value) ==
    IF dict_has(d, key)
    THEN [i \in DOMAIN d |-> IF d[i][1] = key THEN <<key, value>> ELSE d[i]]
    ELSE Append(d, <<key, value>>)
dict_setdefault(d, key) == IF dict_has(d, key) THEN d ELSE Append(d, <<key, <<>>>>)

\* ConfigMeta.__init__, ConfigMeta.clear
ConfigMeta == [_name2var |-> <<>>, _pname2vars |-> <<>>]

\* the meta of a variable
Meta(vtype, required, pname, default) ==
    [type |-> vtype, required |-> required, pname |-> pname, default |-> default]

\* the checks of register_variable without the one for a plugin's name
register_raises_unnamed(vtype, pname) ==
    \/ vtype \notin {"core", "plugin"}
    \/ vtype = "core" /\ pname # None

\* the checks of register_variable
register_raises(vtype, pname) ==
    \/ vtype \notin {"core", "plugin"}
    \/ vtype = "core" /\ pname # None
    \/ vtype = "plugin" /\ pname = None

\* the registry after register_variable stored the meta
registered(self, name, vtype, required, pname, default) ==
    LET var == variable_name(name, pname)
        meta == Meta(vtype, required, pname, default)
        name2var == dict_set(self._name2var, var, meta)
    IN  IF pname # None /\ pname[1] # <<>>
        THEN LET byplugin == dict_setdefault(self._pname2vars, pname[1])
             IN  [_name2var |-> name2var,
                  _pname2vars |->
                      dict_set(byplugin, pname[1],
                               dict_set(dict_get(byplugin, pname[1]), var, meta))]
        ELSE [_name2var |-> name2var, _pname2vars |-> self._pname2vars]

\* ConfigMeta.plugin_vars, ConfigMeta.core_vars
RECURSIVE concat(_)
concat(seqs) == IF seqs = <<>> THEN <<>> ELSE Head(seqs) \o concat(Tail(seqs))
plugin_vars(self) ==
    concat([i \in DOMAIN self._pname2vars |-> dict_keys(self._pname2vars[i][2])])
core_vars(self) ==
    dict_keys(SelectSeq(self._name2var,
                        LAMBDA e : e[2].pname = None \/ e[2].pname[1] = <<>>))

\* a call leaves its name, its arguments and its outcome in fn
Returned_(name, args, outcome) ==
    [pc |-> "returned", name |-> name, args |-> Some(args), ret |-> Some(outcome)]

\* ConfigMeta.register_variable
register_variable(name, vtype, required, pname, default) ==
    /\ IF register_raises(vtype, pname)
       THEN /\ fn' = Returned_("register_variable",
                               [name |-> name, vtype |-> vtype,
                                required |-> required, pname |-> pname,
                                default |-> default],
                               Raises("ValueError"))
            /\ registry' = registry
       ELSE /\ fn' = Returned_("register_variable",
                               [name |-> name, vtype |-> vtype,
                                required |-> required, pname |-> pname,
                                default |-> default],
                               Returns(variable_name(name, pname)))
            /\ registry' = registered(registry, name, vtype, required, pname,
                                      default)
    /\ UNCHANGED <<rows, mapping, links, pager, calls, last, quiet, quietAtFetch,
                   config, current_user, session, walk>>

\* ConfigMeta.register_core_variable, ConfigMeta.register_plugin_variable
register_core_variable(name, required, default) ==
    register_variable(name, "core", required, None, default)
register_plugin_variable(pname, name, required, default) ==
    register_variable(name, "plugin", required, Some(pname), default)

\* ConfigMeta.clear
clear ==
    /\ registry' = ConfigMeta
    /\ fn' = Returned_("clear", <<>>, Returns(<<>>))
    /\ UNCHANGED <<rows, mapping, links, pager, calls, last, quiet, quietAtFetch,
                   config, current_user, session, walk>>


(***************************************************************************)
(* A ConfigMeta on which variables are registered and cleared.             *)
(***************************************************************************)
\* names that collide once formatted: the core variable p_x and the variable
\* x of plugin p; the core variable x and the variable x of a plugin whose
\* name starts with i-vis- or is empty
CoreNames == {<<"x">>, <<"p", "_", "x">>}
PluginNames ==
    {<<<<"p">>, <<"x">>>>,
     <<<<"i", "-", "v", "i", "s", "-", "p">>, <<"x">>>>,
     <<<<>>, <<"x">>>>}
VTypes == {"core", "plugin", "foo"}
\* required and default as the tests register them
MetaArgs ==
    {[required |-> FALSE, default |-> Some("d")],
     [required |-> TRUE, default |-> None]}

InitRegistry == PagerIdle /\ AppIdle /\ fn = IdleFn

NextRegistry ==
    \/ \E vtype \in VTypes, pname \in {None, Some(<<"p">>)}, m \in MetaArgs :
           register_variable(<<"x">>, vtype, m.required, pname, m.default)
    \/ \E name \in CoreNames, m \in MetaArgs :
           register_core_variable(name, m.required, m.default)
    \/ \E pn \in PluginNames, m \in MetaArgs :
           register_plugin_variable(pn[1], pn[2], m.required, m.default)
    \/ clear

SpecRegistry == InitRegistry /\ [][NextRegistry]_vars


\* MissingVariable(variable)
MissingVariable(variable) ==
    [raised |-> Some("MissingVariable"), value |-> None, variable |-> variable]

\* _check_meta that takes a name set to None for present
check_meta_raises_absent(cfg, var_name, meta) ==
    meta.required /\ var_name \notin DOMAIN cfg

\* the condition of _check_meta(var_name, meta) under which it raises
check_meta_raises(cfg, var_name, meta) ==
    meta.required /\ (var_name \notin DOMAIN cfg \/ cfg[var_name] = None)

\* _check_meta on each <<var_name, meta>> in turn
RECURSIVE check_each(_, _)
check_each(cfg, entries) ==
    IF entries = <<>> THEN Returns(<<>>)
    ELSE IF check_meta_raises(cfg, Head(entries)[1], Head(entries)[2])
    THEN MissingVariable(Head(entries)[1])
    ELSE check_each(cfg, Tail(entries))

\* the config after the default of each <<var_name, meta>> in turn is set
\* where the config has no such name
RECURSIVE defaults_set(_, _)
defaults_set(cfg, entries) ==
    IF entries = <<>> THEN cfg
    ELSE LET var_name == Head(entries)[1]
             meta == Head(entries)[2]
         IN  defaults_set(IF var_name \notin DOMAIN cfg
                          THEN SetItem(cfg, var_name, meta.default)
                          ELSE cfg,
                          Tail(entries))

\* the <<var_name, meta>> that set_core_defaults, check_core_config and
\* the plugin methods visit, in their order
core_vars_meta(self) ==
    [i \in DOMAIN core_vars(self) |->
        <<core_vars(self)[i], dict_get(self._name2var, core_vars(self)[i])>>]
core_items(self) == SelectSeq(self._name2var, LAMBDA e : e[2].pname = None)
plugin_items(self) ==
    concat([i \in DOMAIN self._pname2vars |-> self._pname2vars[i][2]])

\* ConfigMeta.set_defaults: set_core_defaults, then set_plugin_defaults; the
\* call is recorded with the current_app.config it found
set_defaults ==
    /\ config' = defaults_set(defaults_set(config, core_vars_meta(registry)),
                              plugin_items(registry))
    /\ fn' = Returned_("set_defaults", config, Returns(<<>>))
    /\ UNCHANGED <<rows, mapping, links, pager, calls, last, quiet, quietAtFetch,
                   registry, current_user, session, walk>>

\* ConfigMeta.check_core_config
check_core_config ==
    /\ fn' = Returned_("check_core_config", <<>>,
                       check_each(config, core_items(registry)))
    /\ UNCHANGED <<rows, mapping, links, pager, calls, last, quiet, quietAtFetch, app>>

\* ConfigMeta.check_plugin_config
check_plugin_config ==
    /\ fn' = Returned_("check_plugin_config", <<>>,
                       check_each(config, plugin_items(registry)))
    /\ UNCHANGED <<rows, mapping, links, pager, calls, last, quiet, quietAtFetch, app>>

(***************************************************************************)
(* An application that registers its variables, then sets the defaults and *)
(* checks the config it was started with.                                  *)
(***************************************************************************)
I_VIS_X == variable_name(<<"x">>, None)
I_VIS_P_X == variable_name(<<"x">>, Some(<<"p">>))
I_VIS_P_Y == variable_name(<<"y">>, Some(<<"p">>))

\* dummy_app.config: nothing, or one name set to None
Configs == {<<>>, SetItem(<<>>, I_VIS_X, None)}
PluginVariables ==
    {<<<<"p">>, <<"x">>>>, <<<<"p">>, <<"y">>>>,
     <<<<"i", "-", "v", "i", "s", "-", "p">>, <<"x">>>>,
     <<<<"i", "-", "v", "i", "s", "-", "q">>, <<"x">>>>}
CheckMetaArgs ==
    {[required |-> TRUE, default |-> Some("d")],
     [required |-> TRUE, default |-> None],
     [required |-> FALSE, default |-> None]}

MaxVars == 3
Registering ==
    /\ fn.name \in {"none", "register_variable"}
    /\ Len(registry._name2var) < MaxVars

InitConfig ==
    /\ PagerIdle
    /\ fn = IdleFn
    /\ registry = ConfigMeta
    /\ config \in Configs
    /\ current_user = None
    /\ session = <<>>
    /\ walk = None

NextConfig ==
    \/ \E m \in CheckMetaArgs :
           Registering /\ register_core_variable(<<"x">>, m.required, m.default)
    \/ \E pn \in PluginVariables, m \in {a \in CheckMetaArgs : a.required} :
           Registering
               /\ register_plugin_variable(pn[1], pn[2], m.required, m.default)
    \/ fn.name # "set_defaults" /\ set_defaults
    \/ check_core_config
    \/ check_plugin_config

SpecConfig == InitConfig /\ [][NextConfig]_vars

(***************************************************************************)
(* login.py                                                                *)
(***************************************************************************)
LOGIN_DISABLED == <<"L", "O", "G", "I", "N", "_", "D", "I", "S", "A", "B", "L", "E", "D">>

\* current_app.config.get(key, default)
config_get(cfg, key, default) == IF key \in DOMAIN cfg THEN cfg[key] ELSE default

\* the users flask_login may hand out as current_user: the anonymous one,
\* and a models.User, authenticated, with its id and its is_admin column
AnonymousUser == [id |-> 0, is_authenticated |-> FALSE, is_admin |-> FALSE]
User(id, is_admin) == [id |-> id, is_authenticated |-> TRUE, is_admin |-> is_admin]

\* the condition under which decorated_view raises IllegalAccessError
denied(cfg, user) ==
    /\ ~config_get(cfg, LOGIN_DISABLED, TRUE)
    /\ user = None \/ ~user[1].is_authenticated \/ ~user[1].is_admin

\* decorated_view(arg) of admin_required(func), func returning its argument
decorated_view(arg) ==
    /\ fn' = Returned_("decorated_view", arg,
                       IF denied(config, current_user)
                       THEN Raises("IllegalAccessError")
                       ELSE Returns(<<"func", arg>>))
    /\ UNCHANGED <<rows, mapping, links, pager, calls, last, quiet, quietAtFetch, app>>

\* flask_login puts a user, or the anonymous user, in current_user
login_user(user) ==
    /\ current_user' = Some(user)
    /\ fn' = IdleFn
    /\ UNCHANGED <<rows, mapping, links, pager, calls, last, quiet, quietAtFetch,
                   registry, config, session, walk>>

(***************************************************************************)
(* Users signing in and out of an application whose config sets            *)
(* LOGIN_DISABLED or leaves it out, and calling a view for admins.         *)
(***************************************************************************)
LoginConfigs ==
    {<<>>, SetItem(<<>>, LOGIN_DISABLED, FALSE), SetItem(<<>>, LOGIN_DISABLED, TRUE)}
Users == {AnonymousUser} \cup {User(id, a) : id \in 1..MaxSize, a \in BOOLEAN}

InitLogin ==
    /\ PagerIdle
    /\ fn = IdleFn
    /\ registry = ConfigMeta
    /\ config \in LoginConfigs
    /\ current_user = None
    /\ session = <<>>
    /\ walk = None

NextLogin ==
    \/ \E user \in Users : login_user(user)
    \/ \E arg \in 0..MaxArg : decorated_view(arg)

SpecLogin == InitLogin /\ [][NextLogin]_vars

(***************************************************************************)
(* models.py: Setting.  session holds the Setting objects of the session,  *)
(* variable -> value, in rows, and in made the variables for which a       *)
(* Setting was constructed and given to no session.                        *)
(***************************************************************************)
EmptySession == [rows |-> <<>>, made |-> {}]

\* session.query(cls).get(variable): the Setting of the session, or None
query_get(s, variable) ==
    IF variable \in DOMAIN s.rows
    THEN Some([variable |-> variable, value |-> s.rows[variable]])
    ELSE None

\* Setting.get_value(variable)
get_value(variable) ==
    /\ LET setting == query_get(session, variable)
       IN  fn' = Returned_("get_value", <<variable>>,
                           IF setting # None THEN Returns(Some(setting[1].value))
                           ELSE Returns(None))
    /\ UNCHANGED <<rows, mapping, links, pager, calls, last, quiet, quietAtFetch, app>>

\* Setting.set_value(variable, value)
set_value(variable, value) ==
    /\ LET setting == query_get(session, variable)
       IN  IF setting = None
           THEN session' = [session EXCEPT !.made = @ \cup {variable}]
           ELSE session' = [session EXCEPT !.rows[variable] = value]
    /\ fn' = Returned_("set_value", <<variable, value>>,
                       Returns([variable |-> variable, value |-> value]))
    /\ UNCHANGED <<rows, mapping, links, pager, calls, last, quiet, quietAtFetch,
                   registry, config, current_user, walk>>

\* db.session.add(Setting(variable, value)) for a variable the session lacks
session_add(variable, value) ==
    /\ variable \notin DOMAIN session.rows
    /\ session' = [session EXCEPT !.rows = SetItem(@, variable, value)]
    /\ fn' = IdleFn
    /\ UNCHANGED <<rows, mapping, links, pager, calls, last, quiet, quietAtFetch,
                   registry, config, current_user, walk>>

(***************************************************************************)
(* One session in which settings are added, set and read.                  *)
(***************************************************************************)
SettingVariables == {"var1", "var2"}
SettingValues == {"val1", "value1"}

InitSetting ==
    /\ PagerIdle
    /\ fn = IdleFn
    /\ registry = ConfigMeta
    /\ config = <<>>
    /\ current_user = None
    /\ session = EmptySession
    /\ walk = None

NextSetting ==
    \/ \E variable \in SettingVariables, value \in SettingValues :
           session_add(variable, value)
    \/ \E variable \in SettingVariables, value \in SettingValues :
           set_value(variable, value)
    \/ \E variable \in SettingVariables : get_value(variable)

SpecSetting == InitSetting /\ [][NextSetting]_vars

(***************************************************************************)
(* A client that walks a fixed table with QueryPager: it asks for the page *)
(* at the smallest key and then for the page at each next_id it is given.  *)
(* walk holds the size it asks for, the cursor of the next request, the    *)
(* keys of the rows it was given, in order, the number of calls, and the   *)
(* cursor, the keys and the next_id of the last call.                      *)
(***************************************************************************)
MaxWalkKey == 4
WalkKeys == (0 - 1)..MaxWalkKey
WalkTables == (SUBSET {Row(k) : k \in WalkKeys}) \ {{}}

\* the column of each row of a page
column_of(results) == [i \in DOMAIN results |-> results[i].id]

\* the request for the page at walk.current_id and the reading of its answer
Walk_paginated_result ==
    /\ ~walk.done
    /\ LET parameters == PaginationParameters(walk.current_id, walk.size, MAX_SIZE)
           pr == QueryPager_paginated_result([query |-> rows, links |-> links],
                                             parameters)
           next_id == pr.pager_info.next_id
       IN  walk' = [size |-> walk.size,
                    current_id |-> IF next_id = None THEN walk.current_id
                                   ELSE next_id[1],
                    visited |-> walk.visited \o column_of(pr.results),
                    calls |-> walk.calls + 1,
                    from |-> Some(walk.current_id),
                    page |-> column_of(pr.results),
                    next_id |-> next_id,
                    done |-> next_id = None]
    /\ UNCHANGED <<rows, mapping, links, pager, calls, last, quiet, quietAtFetch,
                   fn, registry, config, current_user, session>>

InitWalk ==
    /\ rows \in WalkTables
    /\ mapping = <<>>
    /\ links = SelfLinks
    /\ pager = Pagers
    /\ calls = [t \in Threads |-> IdleCall]
    /\ last = None
    /\ quiet = TRUE
    /\ quietAtFetch = TRUE
    /\ fn = IdleFn
    /\ registry = ConfigMeta
    /\ config = <<>>
    /\ current_user = None
    /\ session = <<>>
    /\ \E size \in Sizes :
           walk = [size |-> size,
                   current_id |-> order_by(rows)[1].id,
                   visited |-> <<>>,
                   calls |-> 0,
                   from |-> None,
                   page |-> <<>>,
                   next_id |-> None,
                   done |-> FALSE]

NextWalk == Walk_paginated_result

SpecWalk == InitWalk /\ [][NextWalk]_vars

(***************************************************************************)
(* Properties.                                                             *)
(***************************************************************************)
Done(t, kind) == calls[t].pc = "done" /\ calls[t].kind = kind
Params(t) == calls[t].params[1]
Result(t) == calls[t].result[1]
KeysOf(table) == {r.id : r \in table}
Rank(Q, k) == Cardinality({j \in Q : j < k})
PageLen(n, c, s) == Max(0, Min(s, n - c))

\* C1: for total >= 0, size > 0 and current_id >= 0, get_next_id returns
\* None iff current_id + size >= total or current_id >= total; otherwise it
\* returns exactly current_id + size, which is then < total.
C1_GetNextId ==
    (fn.name = "get_next_id" /\ fn.pc = "returned") =>
        LET a == fn.args[1]
            r == fn.ret[1]
        IN  /\ (r = None) <=> (a.current_id + a.size >= a.total
                               \/ a.current_id >= a.total)
            /\ r # None => /\ r = Some(a.current_id + a.size)
                           /\ a.current_id + a.size < a.total

\* a call that returned None because the rest fits exactly in the current page
C1_Witness ==
    /\ fn.name = "get_next_id" /\ fn.pc = "returned"
    /\ fn.args[1].current_id > 0
    /\ fn.args[1].current_id + fn.args[1].size = fn.args[1].total
    /\ fn.ret[1] = None

\* C2: QueryPager.paginated_result over unique keys returns exactly the rows
\* with key >= current_id, ascending by key, cut to the first size of them;
\* next_id is the key of the (size+1)-th such row when more than size rows
\* qualify, and None otherwise.
C2_QueryPage ==
    \A t \in Threads : Done(t, "QueryPager") =>
        LET c == Params(t).current_id
            s == Params(t).size
            Q == {k \in KeysOf(rows) : k >= c}
            res == Result(t).results
        IN  /\ \A i \in DOMAIN res : res[i] \in rows
            /\ \A i, j \in DOMAIN res : i < j => res[i].id < res[j].id
            /\ {res[i].id : i \in DOMAIN res} = {k \in Q : Rank(Q, k) < s}
            /\ Result(t).pager_info.next_id =
                   IF Cardinality(Q) > s
                   THEN Some(CHOOSE k \in Q : Rank(Q, k) = s)
                   ELSE None

\* a finished query call that cut the page and left rows below the cursor out
C2_Witness ==
    \E t \in Threads :
        /\ Done(t, "QueryPager")
        /\ Len(Result(t).results) = Params(t).size
        /\ Result(t).pager_info.next_id # None
        /\ \E r \in rows : r.id < Params(t).current_id

\* C3: DictPager.paginated_result (offset current_id >= 0) sets total to the
\* number of entries of the mapping, returns the values at insertion-order
\* positions [current_id, current_id + size), fewer when the mapping ends
\* earlier, and next_id = get_next_id(current_id, size, total).
C3_DictPage ==
    \A t \in Threads : (Done(t, "DictPager") /\ Params(t).current_id >= 0) =>
        LET c == Params(t).current_id
            s == Params(t).size
            n == Len(mapping)
        IN  /\ Result(t).pager_info.total = Some(n)
            /\ Result(t).results = [i \in 1..PageLen(n, c, s) |-> mapping[c + i][2]]
            /\ Result(t).pager_info.next_id = get_next_id(c, s, n)

\* a finished dict call on a page that starts inside the mapping
C3_Witness ==
    \E t \in Threads :
        /\ Done(t, "DictPager")
        /\ Params(t).current_id > 0
        /\ Params(t).current_id < Len(mapping)
        /\ Result(t).results # <<>>

\* C4: the result of DictPager carries as keys the slice of keys of the
\* page, so that data is the sub-mapping of the source at positions
\* [current_id, current_id + size), same keys, same values, same order.
C4_DictData ==
    \A t \in Threads : (Done(t, "DictPager") /\ Params(t).current_id >= 0) =>
        LET c == Params(t).current_id
            s == Params(t).size
            page == SubSeq(mapping, c + 1, Min(c + s, Len(mapping)))
        IN  /\ Result(t).keys = Some(dict_keys(page))
            /\ data(Result(t)) = page

\* C5: the list-offset pager (default current_id 0) returns total =
\* len(sequence), the slice [current_id, current_id + size) and next_id =
\* get_next_id(current_id, size, total); over 10 elements (0,2) gives the
\* first two and next_id 2, (8,2) the last two and None, (10,2) an empty
\* page and None.
C5_ListPage ==
    (fn.name = "ListPager" /\ fn.pc = "returned") =>
        LET a == fn.args[1]
            r == fn.ret[1]
            n == Len(a.obj)
            c == IF a.q.current_id = None THEN 0 ELSE a.q.current_id[1]
            s == r.pager_info.pagination_params.size
            next == r.pager_info.next_id
        IN  /\ r.pager_info.pagination_params.current_id = c
            /\ r.pager_info.total = Some(n)
            /\ r.results = [i \in 1..PageLen(n, c, s) |-> a.obj[c + i]]
            /\ next = (IF c + s < n THEN Some(c + s) ELSE None)
            /\ (n = 10 /\ s = 2 /\ c = 0) =>
                   r.results = <<a.obj[1], a.obj[2]>> /\ next = Some(2)
            /\ (n = 10 /\ s = 2 /\ c = 8) =>
                   r.results = <<a.obj[9], a.obj[10]>> /\ next = None
            /\ (n = 10 /\ s = 2 /\ c = 10) =>
                   r.results = <<>> /\ next = None

\* the last page of two of a list of ten elements
C5_Witness ==
    /\ fn.name = "ListPager" /\ fn.pc = "returned"
    /\ Len(fn.args[1].obj) = 10
    /\ fn.args[1].q.current_id = Some(8)
    /\ fn.args[1].q.size = Some(2)
    /\ Len(fn.ret[1].results) = 2

\* C6: for DictPager with current_id >= total and for QueryPager with
\* current_id greater than every key, the call completes with an empty page,
\* next_id None and no "next" link.
C6_PastTheEnd ==
    \A t \in Threads :
        (\/ Done(t, "DictPager") /\ Params(t).current_id >= Len(mapping)
         \/ Done(t, "QueryPager") /\ \A r \in rows : Params(t).current_id > r.id) =>
            /\ Result(t).results = <<>>
            /\ Result(t).pager_info.next_id = None
            /\ "next" \notin DOMAIN Result(t).links

\* both pagers finished a call past the end, the query on a non-empty table
C6_Witness ==
    \E t, u \in Threads :
        /\ Done(t, "DictPager")
        /\ Params(t).current_id >= Len(mapping)
        /\ Done(u, "QueryPager") /\ rows # {}
        /\ \A r \in rows : Params(u).current_id > r.id

\* C7: the links of the result contain "next" iff pager_info.next_id is not
\* None, and then links["next"] = next_callback(next_id); every other
\* caller-supplied entry appears unchanged, and the caller's links are not
\* modified.  (DictPager is taken on its offsets, current_id >= 0.)
C7_NextLink ==
    \A t \in Threads :
        (calls[t].pc = "done"
         /\ (calls[t].kind = "DictPager" => Params(t).current_id >= 0)) =>
            LET r == Result(t)
                n == r.pager_info.next_id
            IN  /\ ("next" \in DOMAIN r.links) <=> (n # None)
                /\ ("next" \in DOMAIN r.links /\ n # None) =>
                       r.links["next"] = next_callback(n[1])
                /\ DOMAIN r.links \ {"next"} = DOMAIN links
                /\ \A k \in DOMAIN links : r.links[k] = links[k]
                /\ links \in CallerLinks

\* C8: for QueryPager with a fixed (current_id, size), inserts and deletes
\* of rows with key < current_id between two calls leave results and
\* next_id unchanged.
C8_StableBelowCursor ==
    \A t \in Threads :
        (/\ Done(t, "QueryPager")
         /\ last # None
         /\ last[1].params = Params(t)
         /\ quietAtFetch) =>
            /\ Result(t).results = last[1].result.results
            /\ Result(t).pager_info.next_id = last[1].result.pager_info.next_id

\* the same page fetched twice while rows before the cursor came or went
C8_Witness ==
    \E t \in Threads :
        /\ Done(t, "QueryPager")
        /\ last # None
        /\ last[1].params = Params(t)
        /\ quietAtFetch
        /\ Result(t).pager_info.total # last[1].result.pager_info.total
        /\ Result(t).results # <<>>
        /\ Result(t).pager_info.next_id # None

\* C9: QueryPager.paginated_result reads the count of the unfiltered source
\* and then fetches; with no write between the two reads total is the number
\* of rows of the whole source the fetch observed.
C9_CountThenFetch ==
    [][\A t \in Threads :
          (calls'[t].pc = "done" /\ calls[t].pc # "done"
           /\ calls'[t].kind = "QueryPager") =>
              /\ calls[t].pc = "counted"
              /\ ~calls[t].dirty =>
                     calls'[t].result[1].pager_info.total = Some(Cardinality(rows))]_vars

\* a writer between the two reads: fewer rows counted than rows returned
C9_Witness ==
    \E t \in Threads :
        /\ Done(t, "QueryPager")
        /\ calls[t].dirty
        /\ Result(t).pager_info.total[1] < Len(Result(t).results)

\* C10: paginated_result never modifies the pager's fields, the parameters
\* it is given or the source mapping and links, and under any interleaving
\* of calls on the shared pagers over an unchanging source each call
\* returns what it returns when run alone.
C10_Stateless ==
    [][/\ pager' = pager
       /\ mapping' = mapping
       /\ links' = links
       /\ \A t \in Threads :
              calls[t].pc \in {"info", "counted"} => calls'[t].params = calls[t].params
       /\ \A t \in Threads :
              calls'[t].pc = "done" =>
                  LET parameters == calls'[t].params[1]
                      r == calls'[t].result[1]
                  IN  /\ r.pager_info.pagination_params = parameters
                      /\ calls'[t].kind = "DictPager" =>
                             r = DictPager_paginated_result(
                                     [results |-> mapping, links |-> links], parameters)
                      /\ calls'[t].kind = "QueryPager" =>
                             r = QueryPager_paginated_result(
                                     [query |-> rows, links |-> links], parameters)]_vars

\* two calls on the same pager with different parameters, both finished
C10_Witness ==
    \E t, u \in Threads :
        /\ t # u
        /\ calls[t].pc = "done" /\ calls[u].pc = "done"
        /\ calls[t].kind = calls[u].kind
        /\ Params(t).current_id # Params(u).current_id
        /\ Params(t).size # Params(u).size
        /\ Result(t).results # Result(u).results

\* C11: PagerInfo.pages is None when total is None and otherwise the
\* ceiling of total / pagination_params.size, with the size the parameters
\* hold when pages is read (10/5 gives 2, 6/5 gives 2, 10/3 gives 4).
C11_Pages ==
    (fn.name = "pages" /\ fn.pc = "returned") =>
        LET info == fn.args[1]
            size == info.pagination_params.size
            r == fn.ret[1]
        IN  /\ (info.total = None) <=> (r = None)
            /\ info.total # None =>
                   LET total == info.total[1]
                   IN  /\ r[1] * size >= total
                       /\ (r[1] - 1) * size < total
                       /\ (total = 10 /\ size = 5) => r = Some(2)
                       /\ (total = 6 /\ size = 5) => r = Some(2)
                       /\ (total = 10 /\ size = 3) => r = Some(4)

\* pages read for a total that the size does not divide
C11_Witness ==
    /\ fn.name = "pages" /\ fn.pc = "returned"
    /\ fn.args[1].total = Some(6)
    /\ fn.args[1].pagination_params.size = 5
    /\ fn.ret[1] = Some(2)


Returned(name) == fn.name = name /\ fn.pc = "returned"
Arg == fn.args[1]
Ret == fn.ret[1]

\* the reading of a string as prefix + major[.minor[.patch]] + suffix with
\* the prefix its leading run of non-digits
DigitsEnd(s, i) ==
    CHOOSE j \in (i - 1)..Len(s) :
        /\ \A k \in i..j : IsDigit(s[k])
        /\ j = Len(s) \/ ~IsDigit(s[j + 1])
NonDigitsEnd(s) ==
    CHOOSE j \in 0..Len(s) :
        /\ \A k \in 1..j : ~IsDigit(s[k])
        /\ j = Len(s) \/ IsDigit(s[j + 1])
HasNumber(s, i) == i + 1 <= Len(s) /\ s[i] = "." /\ IsDigit(s[i + 1])
DottedForm(s) == NonDigitsEnd(s) < Len(s)
DottedFields(s) ==
    LET p == NonDigitsEnd(s)
        a == DigitsEnd(s, p + 1)
        b == IF HasNumber(s, a + 1) THEN DigitsEnd(s, a + 2) ELSE a
        c == IF b > a /\ HasNumber(s, b + 1) THEN DigitsEnd(s, b + 2) ELSE b
    IN  Default(int(SubSeq(s, p + 1, a)),
                IF b > a THEN Some(int(SubSeq(s, a + 2, b))) ELSE None,
                IF c > b THEN Some(int(SubSeq(s, b + 2, c))) ELSE None,
                SubSeq(s, 1, p), SubSeq(s, c + 1, Len(s)))

\* C12: for s of the form prefix + major[.minor[.patch]] + suffix, with
\* prefix the leading run of non-digits, Default.from_str(s) returns the
\* Default whose prefix is that run, whose major, minor and patch are the
\* first, second and third numbers of the dotted run and whose suffix is
\* the rest.
C12_FromStr ==
    Returned("from_str") /\ DottedForm(Arg) => Ret = Returns(DottedFields(Arg))


\* C13: for every Default value v, Default.from_str(str(v)) == v evaluates
\* to True; among them Default(1, 1, 2, prefix="pre-", suffix="-post"),
\* Default(1, 1, 2), Default(1, 1) and Default(1), which render as
\* "pre-1.1.2-post", "1.1.2", "1.1" and "1".
C13_RoundTrip == Returned("round_trip") => Ret = "True"


A == Arg[1]
B == Arg[2]
BothDefault == isinstance(A, "Default") /\ isinstance(B, "Default")

\* C14: two Default values are == exactly when their renderings
\* {prefix}{major[.minor[.patch]]}{suffix} are identical, so values with
\* different fields and the same rendering are equal, and values that
\* differ only in the prefix or only in the suffix are not equal.
C14_EqIsStrEq ==
    Returned("compare") /\ BothDefault =>
        /\ Ret.eq = Bool(Default_str(A) = Default_str(B))
        /\ A # B /\ [A EXCEPT !.prefix = B.prefix] = B => Ret.eq = "False"
        /\ A # B /\ [A EXCEPT !.suffix = B.suffix] = B => Ret.eq = "False"

C14_Witness ==
    /\ Returned("compare")
    /\ A = Default(1, Some(2), None, <<>>, <<>>)
    /\ B = Default(1, None, Some(2), <<>>, <<>>)
    /\ Ret.eq = "True"


\* the values of the compared attributes, in priority order
Fields(v) ==
    IF isinstance(v, "Default") THEN <<Some(v.major), v.minor, v.patch>>
    ELSE <<Some(v.year), Some(v.month), Some(v.day)>>
Differing(x, y) == {i \in DOMAIN x : x[i] # y[i]}
FirstDiff(x, y) == CHOOSE i \in Differing(x, y) : \A j \in Differing(x, y) : i <= j
LessAtFirstDiff(x, y) ==
    /\ Differing(x, y) # {}
    /\ LET i == FirstDiff(x, y)
       IN  \/ x[i] = None
           \/ x[i] # None /\ y[i] # None /\ x[i][1] < y[i][1]
SameKind ==
    BothDefault \/ (isinstance(A, "Date") /\ isinstance(B, "Date"))
Bare(v) == [v EXCEPT !.prefix = <<>>, !.suffix = <<>>]

\* C15: less_than decides at the first attribute, in priority order, where
\* the two values differ, an absent value differing from a present one:
\* less when a's value is absent or numerically smaller, not less when a's
\* is present and b's absent or a's is larger, and False when no attribute
\* differs.  So Default(1,0,1) < Default(1,1,1) and
\* Default(1,1) < Default(1,1,1) are True, Default(1,1,1) < Default(1,1) is
\* False, and prefix and suffix never influence <.
C15_LessThan ==
    Returned("compare") /\ SameKind =>
        /\ Ret.lt = Bool(LessAtFirstDiff(Fields(A), Fields(B)))
        /\ BothDefault => Ret.lt = op_lt(Bare(A), Bare(B))
        /\ A = Default(1, Some(0), Some(1), <<>>, <<>>)
               /\ B = Default(1, Some(1), Some(1), <<>>, <<>>) => Ret.lt = "True"
        /\ A = Default(1, Some(1), None, <<>>, <<>>)
               /\ B = Default(1, Some(1), Some(1), <<>>, <<>>) =>
                   Ret.lt = "True" /\ Ret.rlt = "False"

C15_Witness ==
    /\ Returned("compare")
    /\ A = Default(1, Some(1), None, <<"v">>, <<>>)
    /\ B = Default(1, Some(1), Some(1), <<>>, <<".", "1">>)
    /\ Ret.lt = "True"
    /\ Ret.rlt = "False"


Lt(o) == o = "True"
IsBool(o) == o \in {"True", "False"}

\* C16: < on Default values, and on Date values, is a strict weak ordering:
\* irreflexive, asymmetric, transitive, and with transitive
\* incomparability, absent minor and patch included.
C16_StrictWeakOrder ==
    Returned("compare3") =>
        /\ \A k \in DOMAIN Ret : IsBool(Ret[k])
        /\ ~Lt(Ret.aa)
        /\ Lt(Ret.ab) => ~Lt(Ret.ba)
        /\ Lt(Ret.ab) /\ Lt(Ret.bc) => Lt(Ret.ac)
        /\ ~Lt(Ret.ab) /\ ~Lt(Ret.ba) /\ ~Lt(Ret.bc) /\ ~Lt(Ret.cb) =>
               ~Lt(Ret.ac) /\ ~Lt(Ret.ca)

C16_Witness ==
    /\ Returned("compare3")
    /\ Arg = <<Default(1, None, None, <<>>, <<>>),
               Default(1, Some(0), None, <<>>, <<>>),
               Default(1, Some(0), Some(0), <<>>, <<>>)>>
    /\ Lt(Ret.ab) /\ Lt(Ret.bc) /\ Lt(Ret.ac)

\* three distinct values, pairwise incomparable
C16_WitnessIncomparable ==
    /\ Returned("compare3")
    /\ Arg[1] = Default(1, Some(0), None, <<>>, <<>>)
    /\ Arg[2] = Default(1, Some(0), None, <<"v">>, <<>>)
    /\ Arg[3] = Arg[1]
    /\ ~Lt(Ret.ab) /\ ~Lt(Ret.ba) /\ ~Lt(Ret.ac) /\ ~Lt(Ret.ca)


AllPresent(v) == v.minor # None /\ v.patch # None
ExactlyOne(p, q, r) ==
    \/ p /\ ~q /\ ~r
    \/ ~p /\ q /\ ~r
    \/ ~p /\ ~q /\ r

\* C17 as claimed: for two Default values whose major, minor and patch are
\* all present, exactly one of a < b, a == b, b < a holds.
C17_Trichotomy ==
    Returned("compare") /\ BothDefault /\ AllPresent(A) /\ AllPresent(B) =>
        ExactlyOne(Lt(Ret.lt), Lt(Ret.eq), Lt(Ret.rlt))

\* C17 as amended: for two Default values whose major, minor and patch are
\* all present and whose prefix and suffix are the same, exactly one of
\* a < b, a == b, b < a holds.
C17_TrichotomySameAffixes ==
    Returned("compare") /\ BothDefault /\ AllPresent(A) /\ AllPresent(B)
        /\ A.prefix = B.prefix /\ A.suffix = B.suffix =>
            ExactlyOne(Lt(Ret.lt), Lt(Ret.eq), Lt(Ret.rlt))

C17_Witness ==
    /\ Returned("compare")
    /\ A = Default(1, Some(1), Some(1), <<"v">>, <<>>)
    /\ B = Default(1, Some(1), Some(1), <<"v">>, <<>>)
    /\ Lt(Ret.eq) /\ ~Lt(Ret.lt) /\ ~Lt(Ret.rlt)


\* C18: for u = Unknown() and every Version v (another Unknown, a base
\* Version, a Date or a Default), u == v and v == u both evaluate to False
\* without raising; Unknown hashes to a constant and is_known is False.
C18_UnknownEqualsNothing ==
    Returned("compare") /\ isinstance(A, "Unknown") =>
        /\ Ret.eq = "False"
        /\ Ret.req = "False"
        /\ Unknown_hash(A) = 0
        /\ ~is_known(A)

\* Version() == Unknown(): the subclass's __eq__ answers before the base's
C18_Witness ==
    /\ Returned("compare")
    /\ A = Unknown
    /\ B = BaseVersion
    /\ Ret.eq = "False"
    /\ Ret.req = "False"


Concrete(v) == v.cls \in {"Unknown", "Date", "Default"}

\* C19: < between two versions of different concrete kinds is not orderable
\* (an outcome that is neither True nor False), except that Unknown against
\* anything is not less: Unknown() < v is False for every Version v, and
\* Unknown() < Unknown() and Unknown() > Unknown() are False.
C19_CrossVariant ==
    Returned("compare") =>
        /\ Concrete(A) /\ Concrete(B) /\ A.cls # B.cls
               /\ ~isinstance(A, "Unknown") /\ ~isinstance(B, "Unknown") =>
                   ~IsBool(Ret.lt)
        /\ isinstance(A, "Unknown") => Ret.lt = "False"
        /\ isinstance(A, "Unknown") /\ isinstance(B, "Unknown") =>
               Ret.gt = "False"


\* C20: for two Default values, or two Date values, v and w, each of <, >,
\* ==, >= and <= yields a boolean, with v > w iff w < v, v <= w iff
\* (v < w or v == w), and v >= w iff (w < v or v == w).
C20_AllOperators ==
    Returned("compare") /\ SameKind =>
        /\ \A k \in {"lt", "gt", "eq", "ge", "le"} : IsBool(Ret[k])
        /\ Lt(Ret.gt) <=> Lt(Ret.rlt)
        /\ Lt(Ret.le) <=> (Lt(Ret.lt) \/ Lt(Ret.eq))
        /\ Lt(Ret.ge) <=> (Lt(Ret.rlt) \/ Lt(Ret.eq))


\* a string of the form YYYY_MM_DD
DateForm(s) ==
    /\ Len(s) = 10
    /\ s[5] = "_" /\ s[8] = "_"
    /\ \A i \in {1, 2, 3, 4, 6, 7, 9, 10} : IsDigit(s[i])
NoDigitRun(s) == \A i \in DOMAIN s : ~IsDigit(s[i])

\* C21: Default.from_str on a string without a digit run, and
\* Date.from_str on a string not of the form YYYY_MM_DD, never return a
\* value and fail with a ParseError.
C21_ParseError ==
    /\ Returned("from_str") /\ NoDigitRun(Arg) => Ret = Raises("ParseError")
    /\ Returned("Date_from_str") /\ ~DateForm(Arg) => Ret = Raises("ParseError")


\* C22: for every non-empty argument list, recent returns one of the given
\* dates that is >= all of them; recent(d) == d.
C22_Recent ==
    Returned("recent") /\ Len(Arg) >= 1 =>
        /\ Ret.raised = None
        /\ \E i \in DOMAIN Arg : Ret.value = Some(Arg[i])
        /\ \A i \in DOMAIN Arg : ~date_gt(Arg[i], Ret.value[1])
        /\ Len(Arg) = 1 => Ret = Returns(Arg[1])


\* C23: register_variable raises ValueError exactly when vtype is neither
\* "core" nor "plugin", or is "core" with a pname, or is "plugin" without
\* one; a call that raises leaves name2var and pname2vars unchanged; a call
\* that succeeds returns the formatted name and records under it the meta
\* {type, required, pname, default}, adding it to pname2vars only for a
\* plugin variable.
C23_RegisterVariable ==
    [][fn'.name = "register_variable" /\ fn'.pc = "returned" =>
          LET a == fn'.args[1]
              r == fn'.ret[1]
              bad == \/ a.vtype # "core" /\ a.vtype # "plugin"
                     \/ a.vtype = "core" /\ a.pname # None
                     \/ a.vtype = "plugin" /\ a.pname = None
          IN  /\ r.raised # None <=> bad
              /\ r.raised # None => r = Raises("ValueError") /\ registry' = registry
              /\ r.raised = None =>
                   /\ dict_has(registry'._name2var, r.value[1])
                   /\ dict_get(registry'._name2var, r.value[1]) =
                          [type |-> a.vtype, required |-> a.required,
                           pname |-> a.pname, default |-> a.default]
                   /\ a.vtype = "core" =>
                          /\ registry'._pname2vars = registry._pname2vars
                          /\ r.value[1] = upper(<<"I", "_", "V", "I", "S", "_">> \o a.name)
                   /\ registry'._pname2vars # registry._pname2vars =>
                          /\ a.vtype = "plugin"
                          /\ dict_get(dict_get(registry'._pname2vars, a.pname[1]),
                                      r.value[1]) = dict_get(registry'._name2var, r.value[1])
                   /\ a.name = <<"x">> /\ a.pname = Some(<<"p">>) =>
                          r.value[1] = <<"I", "_", "V", "I", "S", "_", "P", "_", "X">>]_vars

C23_Witness ==
    /\ fn.name = "register_variable"
    /\ fn.pc = "returned"
    /\ fn.args[1].vtype = "plugin"
    /\ fn.args[1].pname = Some(<<"p">>)
    /\ fn.ret[1] = Returns(<<"I", "_", "V", "I", "S", "_", "P", "_", "X">>)
    /\ dict_has(registry._pname2vars, <<"p">>)


\* a name the config lacks or holds None for
Missing(cfg, var) == var \notin DOMAIN cfg \/ cfg[var] = None
Position(d, key) == CHOOSE i \in DOMAIN d : d[i][1] = key

\* the required variables of a type that are missing, and the first of them
\* in the order of name2var
MissingOfType(self, cfg, vtype) ==
    {i \in DOMAIN self._name2var :
        /\ self._name2var[i][2].type = vtype
        /\ self._name2var[i][2].required
        /\ Missing(cfg, self._name2var[i][1])}
FirstRegistered(self, cfg, vtype) ==
    LET m == MissingOfType(self, cfg, vtype)
    IN  self._name2var[CHOOSE i \in m : \A j \in m : i <= j][1]
Expected(self, cfg, vtype) ==
    IF MissingOfType(self, cfg, vtype) = {} THEN Returns(<<>>)
    ELSE MissingVariable(FirstRegistered(self, cfg, vtype))

\* after set_defaults no required variable with a default is missing, and
\* each required one without a default and without a value is
DefaultsCover(self, before, after) ==
    \A i \in DOMAIN self._name2var :
        LET var == self._name2var[i][1]
            meta == self._name2var[i][2]
        IN  /\ meta.required /\ meta.default # None => ~Missing(after, var)
            /\ meta.required /\ meta.default = None /\ Missing(before, var) =>
                   Missing(after, var)

MissingOfPlugins(self, cfg) ==
    {ij \in (DOMAIN self._pname2vars) \X (DOMAIN self._name2var) :
        /\ ij[2] \in DOMAIN self._pname2vars[ij[1]][2]
        /\ self._pname2vars[ij[1]][2][ij[2]][2].required
        /\ Missing(cfg, self._pname2vars[ij[1]][2][ij[2]][1])}
Before(a, b) == a[1] < b[1] \/ (a[1] = b[1] /\ a[2] <= b[2])
ExpectedOfPlugins(self, cfg) ==
    LET m == MissingOfPlugins(self, cfg)
    IN  IF m = {} THEN Returns(<<>>)
        ELSE LET ij == CHOOSE a \in m : \A b \in m : Before(a, b)
             IN  MissingVariable(self._pname2vars[ij[1]][2][ij[2]][1])

\* the entries set_defaults visits, in its order, and the default of the
\* first of them that holds a name
Visited(self) == core_vars_meta(self) \o plugin_items(self)
HeldBy(visited, var) == {i \in DOMAIN visited : visited[i][1] = var}
FirstDefault(visited, var) ==
    LET held == HeldBy(visited, var)
    IN  visited[CHOOSE i \in held : \A j \in held : i <= j][2].default

\* set_defaults keeps what the config holds, a None included, and gives
\* every other visited name the default of the first entry that holds it
DefaultsFill(self, before, after) ==
    LET visited == Visited(self)
    IN  /\ DOMAIN after = DOMAIN before \cup {visited[i][1] : i \in DOMAIN visited}
        /\ \A var \in DOMAIN before : after[var] = before[var]
        /\ \A var \in DOMAIN after \ DOMAIN before :
               after[var] = FirstDefault(visited, var)

\* as DefaultsCover for the names one entry holds, but a required variable
\* with a default is missing after set_defaults exactly when the config held
\* None for it before
DefaultsCoverUnset(self, before, after) ==
    LET visited == Visited(self)
    IN  \A i \in DOMAIN self._name2var :
            LET var == self._name2var[i][1]
                meta == self._name2var[i][2]
            IN  Cardinality(HeldBy(visited, var)) = 1 =>
                    /\ meta.required /\ meta.default # None =>
                           (Missing(after, var) <=>
                                var \in DOMAIN before /\ before[var] = None)
                    /\ meta.required /\ meta.default = None /\ Missing(before, var) =>
                           Missing(after, var)

LoginEnabled == LOGIN_DISABLED \notin DOMAIN config \/ ~config[LOGIN_DISABLED]
IsAdmin ==
    /\ current_user # None
    /\ current_user[1].is_authenticated
    /\ current_user[1].is_admin

\* C25: where LOGIN_DISABLED is unset or false, a view wrapped with
\* admin_required runs the wrapped function only for a current_user that is
\* authenticated and is_admin; for any other it raises IllegalAccessError
\* and does not invoke the function.
C25_AdminOnly ==
    Returned("decorated_view") /\ LoginEnabled =>
        IF IsAdmin THEN Ret = Returns(<<"func", Arg>>)
        ELSE Ret = Raises("IllegalAccessError")

\* C26: a get_value that follows a set_value of the same variable returns
\* the value set, whether or not the variable existed before; get_value of
\* a variable that was never set returns None.
C26_ReadYourWrite ==
    [][fn'.name = "get_value" =>
           /\ fn.name = "set_value" /\ fn.args[1][1] = fn'.args[1][1] =>
                  fn'.ret[1] = Returns(Some(fn.args[1][2]))
           /\ fn'.args[1][1] \notin DOMAIN session.rows \cup session.made =>
                  fn'.ret[1] = Returns(None)]_vars

\* ceil(a / b)
CeilDiv(a, b) == (a + b - 1) \div b

\* C27: walking a fixed table of unique keys from its smallest key, each
\* request at the next_id of the one before, gives every row exactly once
\* in ascending key order and ends, with next_id None, after
\* ceil(total / size) calls; each next_id is greater than the current_id
\* that produced it and than every key of its page.
C27_Traversal ==
    LET total == Cardinality(rows)
    IN  /\ \A i, j \in DOMAIN walk.visited : i < j => walk.visited[i] < walk.visited[j]
        /\ \A i \in DOMAIN walk.visited : Row(walk.visited[i]) \in rows
        /\ walk.calls <= CeilDiv(total, walk.size)
        /\ ~walk.done => Len(walk.visited) = walk.calls * walk.size
        /\ walk.done =>
               /\ walk.visited = column_of(order_by(rows))
               /\ walk.calls = CeilDiv(total, walk.size)
        /\ walk.next_id # None =>
               /\ walk.next_id[1] > walk.from[1]
               /\ \A i \in DOMAIN walk.page : walk.next_id[1] > walk.page[i]

\* a walk of three calls over keys that are not consecutive and hold 0
C27_Witness ==
    /\ walk.done
    /\ walk.calls = 3
    /\ walk.size = 2
    /\ walk.visited = <<0 - 1, 0, 2, 3, 4>>

\* the numbers of a Default, and the lexicographic order of two tuples of
\* the same length
NumericTuple(v) ==
    <<v.major>> \o (IF v.minor = None THEN <<>> ELSE v.minor)
                \o (IF v.patch = None THEN <<>> ELSE v.patch)
LexLess(s, t) ==
    \E i \in DOMAIN s : s[i] < t[i] /\ \A j \in 1..(i - 1) : s[j] = t[j]

\* C28: for dotted strings a and b with the same number of fields and no
\* prefix or suffix, Default.from_str(a) < Default.from_str(b) is True
\* exactly when the numeric tuple of a is lexicographically smaller than
\* that of b, which is the answer of < on the Default values the strings
\* were rendered from.
C28_ParsedOrder ==
    Returned("parsed_lt") =>
        LET a == DottedFields(Arg[1])
            b == DottedFields(Arg[2])
        IN  /\ Ret = Bool(LexLess(NumericTuple(a), NumericTuple(b)))
            /\ Ret = op_lt(a, b)

\* C29: for all Default values a and b, a == b implies hash(a) == hash(b),
\* also where numbers are carried in the prefix or the suffix and where
\* fields are 0 or None.
C29_HashConsistent ==
    Returned("hashes") /\ Ret.eq = "True" => Ret.a = Ret.b

\* the members of a sequence
Members(seq) == {seq[i] : i \in DOMAIN seq}

\* C30: after any sequence of registrations and clears, core_vars and
\* plugin_vars are disjoint, together they are the keys of name2var, and
\* for every plugin p and variable v of pname2vars[p] the meta held there
\* is the meta of name2var[v] and its pname is p.
C30_RegistryInvariant ==
    LET self == registry
        core == Members(core_vars(self))
        plugin == Members(plugin_vars(self))
    IN  /\ core \cap plugin = {}
        /\ core \cup plugin = Members(dict_keys(self._name2var))
        /\ \A i \in DOMAIN self._pname2vars :
               \A j \in DOMAIN self._pname2vars[i][2] :
                   LET p == self._pname2vars[i][1]
                       v == self._pname2vars[i][2][j][1]
                       meta == self._pname2vars[i][2][j][2]
                   IN  /\ dict_has(self._name2var, v)
                       /\ dict_get(self._name2var, v) = meta
                       /\ meta.pname = Some(p)
====
